---- MODULE Spec2Model ----
(***************************************************************************)
(* Model of the VTube Studio session client (src/vts_client.py, VTSAPI)    *)
(* and of the enumeration driver (src/core.py, check_models_and_hotkeys).  *)
(*                                                                         *)
(* The driver is one sequential coroutine.  Its position is pc (the call   *)
(* site it is at) and phase (the position inside VTSAPI._req when the call *)
(* site is a request).  The remote application is the environment: it      *)
(* answers the requests of a connection in the order they were sent, as    *)
(* late as it likes, with a success reply or an APIError, and it may close *)
(* the connection.  asyncio.wait_for gives up on a reply that has not      *)
(* arrived; the request it abandons stays on the stream.                   *)
(***************************************************************************)
EXTENDS Integers, Sequences, FiniteSets, TLC

\* ---------------------------------------------------------------- bounds
\* Number of models the remote application reports.
NumModels == 6
\* Model ids a selected_ids filter may name (1..FilterIds).
FilterIds == 2
\* How many faults the environment may inject in a run over a filtered list
\* (a reply that comes too late for asyncio.wait_for, an APIError reply, a
\* closed connection); a run over the whole list gets one fault less.
MaxFaults == 3

\* The ids uuid.uuid4 may return in one run of the uuid_manager calls.
MaxIds == 5

\* ------------------------------------------------------ program constants
max_retries == 3
ProbeEvery == 5
DEFAULT_ICON == "default.png"

None == "None"

\* ------------------------------------------------------------ the remote
\* The remote's model list, in the remote's order.
AvailableModels == [i \in 1..NumModels |-> i]

\* The hotkeys the remote holds for model m (ids 10*m+1, 10*m+2, ...):
\* model 1 has two, model 2 one, model 3 none, and so on.
HotkeyCount(m) == IF m = 0 THEN 1 ELSE (3 - (m % 3)) % 3
HotkeysOf(m) == [k \in 1..HotkeyCount(m) |-> 10 * m + k]

\* Request kinds (messageType of the request envelope).
TokenRequest == "AuthenticationTokenRequest"
AuthRequest == "AuthenticationRequest"
StateRequest == "APIStateRequest"
ModelsRequest == "AvailableModelsRequest"
LoadRequest == "ModelLoadRequest"
CurrentRequest == "CurrentModelRequest"
HotkeysRequest == "HotkeysInCurrentModelRequest"

\* Classes of the text an APIError carries, as the code tells them apart.
ErrOngoing == "authentication is currently ongoing"
ErrCannotChange == "Cannot currently change model"
ErrCooldown == "model load cooldown"
ErrOther == "other remote error"

\* Messages of the errors the client raises itself (the source's texts are
\* Chinese; each is rendered word for word, "error dialog" standing for the
\* substring the driver looks for, "VTS state abnormal" for the other one).
MsgAuthPending == "confirm authentication in VTube Studio, then run again"
MsgAuthFailed == "Auth failed"
MsgProbeFailed == "VTS state abnormal, maybe blocked by an error dialog"
MsgBlockedTimeout == "VTS blocked by an error dialog"
MsgDialogAfterLoad == "error dialog detected after model load"
MsgLoadTimeout == "model load timed out"
MsgConnection == "connection closed or refused"
MsgKeyError == "KeyError"

VARIABLES
    \* ---- VTSAPI fields
    ws,              \* "None", or the state of the connection self.ws holds
    token,           \* self.token (0: None)
    authed,          \* self.authed
    \* ---- the stream of the connection self.ws holds
    pending,         \* requests sent and not yet answered by the remote
    inbox,           \* replies that arrived and were not yet read
    connAuthed,      \* the authentication exchange completed on this connection
    \* ---- the remote application
    curModel,        \* the model it has loaded (0: a model not in the list)
    \* ---- the coroutine
    pc,              \* call site / statement of the driver and the client
    phase,           \* position inside _req: "send", "recv", "reconnect", "ret"
    retried,         \* _req is in its except ConnectionClosed branch
    sends,           \* requests the current _req call has sent
    ret,             \* outcome of the _req call that just ended
    exc,             \* exception travelling to the driver's except clauses
    \* ---- locals of check_models_and_hotkeys
    interactive, selected_ids, models, idx, results, failed_models,
    info, successful_models, returned,
    \* ---- locals of load_model
    attempt,
    \* ---- environment budget
    faults,          \* faults injected so far
    \* ---- history of the current model's processing (not program state)
    loadsSent,       \* load-model requests sent by the current load_model call
    loadOutcomes,    \* outcome of the load request of each attempt so far
    lmState,         \* "idle", "running", "returned", "raised"
    lastLoadReq,     \* modelID of the last load-model request sent
    \* ---- uuid_manager: the UUID file and the id generator
    ufile,           \* the content of UUID_FILE
    nextId,          \* number of the next id uuid.uuid4 returns
    ulast,           \* the last uuid_manager call and what it returned
    \* ---- profile_generator: generate_streamdeck_profiles
    models_data,     \* its argument: the result entries
    gpc,             \* its position: "idle", "start", "models", "home", ...
    gi,              \* index of the entry the model loop stands at
    outdir,          \* OUTPUT_DIR: profile id -> the profile folder
    official,        \* the official profiles directory
    home_ids,        \* (history) the ids get_home_uuid returned to this run
    \* ---- gui.App
    btn_fetch,       \* state of self.btn_fetch
    btn_generate,    \* state of self.btn_generate
    model_vars,      \* self.model_vars: modelID -> checkbox value
    tasks            \* the background threads started and not yet finished

vars == <<ws, token, authed, pending, inbox, connAuthed, curModel, pc, phase,
          retried, sends, ret, exc, interactive, selected_ids, models, idx, results,
          failed_models, info, successful_models, returned, attempt,
          faults, loadsSent, loadOutcomes, lmState,
          lastLoadReq, ufile, nextId, ulast, models_data, gpc, gi, outdir,
          official, home_ids, btn_fetch, btn_generate, model_vars, tasks>>

clientVars == <<ws, token, authed>>
streamVars == <<pending, inbox, connAuthed>>
driverVars == <<interactive, selected_ids, models, idx, results,
                failed_models, info, successful_models, returned>>
budgetVars == <<faults>>
histVars == <<loadsSent, loadOutcomes, lmState, lastLoadReq>>
uuidVars == <<ufile, nextId, ulast>>
genVars == <<models_data, gpc, gi, outdir, official, home_ids>>
guiVars == <<btn_fetch, btn_generate, model_vars, tasks>>
runVars == <<clientVars, streamVars, curModel, pc, phase, retried, sends,
             ret, exc, driverVars, attempt, budgetVars, histVars>>

\* A reply frame: its messageType, the fields of its data the program reads
\* (model: modelID / modelFileName of a current-model or load reply, 0 when
\* absent; hotkeys: availableHotkeys; msg: data.message of an APIError), and
\* stale: the request it answers was abandoned by a timeout.
Reply(type, model, hotkeys, msg, stale) ==
    [type |-> type, model |-> model, hotkeys |-> hotkeys, msg |-> msg,
     stale |-> stale]
NoResp == Reply(None, 0, <<>>, None, FALSE)

\* The faults the environment may inject in this run.
FaultBudget == IF selected_ids.on THEN MaxFaults ELSE MaxFaults - 1

NoRet == [kind |-> None, msg |-> None, resp |-> NoResp]
NoExc == [type |-> None, msg |-> None]

\* selected_ids: None (on = FALSE) or a set of modelIDs.
Filters == {[on |-> FALSE, ids |-> {}]}
           \cup {[on |-> TRUE, ids |-> S] : S \in SUBSET (1..FilterIds)}

\* ------------------------------------------------- uuid_manager: the file
\* Model names that get an id; "Home" and "models" are names that are also
\* keys of the file formats.
Names == {"Hiyori", "Home", "models"}
StoredIds == {"stored id"}

\* str(uuid.uuid4()).upper(): an id no earlier call returned.
uuid4(n) == "uuid " \o ToString(n)

EmptyMap == [k \in {} |-> ""]
Extend(f, k, v) == [x \in DOMAIN f \cup {k} |-> IF x = k THEN v ELSE f[x]]
Without(f, k) == [x \in DOMAIN f \ {k} |-> f[x]]
Maps == UNION {[D -> StoredIds] : D \in SUBSET Names}

\* The content of UUID_FILE: absent, not JSON ("corrupt"), the old format
\* (one flat object: "Home" and the model names) or the new format (an
\* object with "home" and "models").
AbsentFile ==
    [fmt |-> "absent", home |-> "", models |-> EmptyMap, flat |-> EmptyMap]
CorruptFile ==
    [fmt |-> "corrupt", home |-> "", models |-> EmptyMap, flat |-> EmptyMap]
FlatFile(d) ==
    [fmt |-> "flat", home |-> "", models |-> EmptyMap, flat |-> d]
NestedFile(h, m) ==
    [fmt |-> "nested", home |-> h, models |-> m, flat |-> EmptyMap]
Files ==
    {AbsentFile, CorruptFile}
    \cup {FlatFile(d) : d \in Maps}
    \cup {NestedFile(h, m) : h \in StoredIds, m \in Maps}

NoOut == [kind |-> None, id |-> ""]
NoLookup == [op |-> None, name |-> "", out |-> NoOut, rep |-> FALSE]

\* The state of the driver and the client before check_models_and_hotkeys
\* runs.
RunInit ==
    /\ ws = None /\ token = 0 /\ authed = FALSE
    /\ pending = <<>> /\ inbox = <<>> /\ connAuthed = FALSE
    /\ curModel = 0
    /\ pc = "start" /\ phase = None /\ retried = FALSE /\ sends = 0
    /\ ret = NoRet /\ exc = NoExc
    /\ interactive \in BOOLEAN
    /\ selected_ids \in Filters
    /\ models = <<>> /\ idx = 0 /\ results = <<>> /\ failed_models = 0
    /\ info = NoResp /\ successful_models = 0 /\ returned = None
    /\ attempt = 0
    /\ faults = 0
    /\ loadsSent = 0 /\ loadOutcomes = <<>> /\ lmState = "idle"
    /\ lastLoadReq = 0

\* uuid_manager before any call, on a system without a UUID file.
UuidIdle == ufile = AbsentFile /\ nextId = 1 /\ ulast = NoLookup

\* profile_generator before generate_streamdeck_profiles is called.
EmptyDir == [k \in {} |-> 0]
GenIdle ==
    /\ models_data = <<>> /\ gpc = "idle" /\ gi = 0
    /\ outdir = EmptyDir /\ official = EmptyDir /\ home_ids = {}

\* gui.App after _build_ui (lines 54-55, 93-95) and __init__ (lines 35-36):
\* the fetch button enabled, the generate button disabled, no checkbox, no
\* background thread.
MaxTasks == 2
\* A thread: what it runs (kind), where it stands (pc), the attempt of the
\* retry loop it is in, the connection its client holds (held: self.ws),
\* how many connections its client opened, no longer refers to and never
\* closed (leaked), and the number of models a fetch returned (found).
NoTask == [kind |-> None, pc |-> None, attempt |-> 0, held |-> None,
           leaked |-> 0, found |-> 0]
GuiIdle ==
    /\ btn_fetch = "normal" /\ btn_generate = "disabled"
    /\ model_vars = [m \in {} |-> FALSE]
    /\ tasks = [t \in 1..MaxTasks |-> NoTask]

Init ==
    /\ RunInit
    /\ UuidIdle /\ GenIdle /\ GuiIdle

\* ------------------------------------------------------------ VTSAPI._req
\* The call sites of _req, and what each one sends.
ReqSites == {"auth_tok", "init_probe", "models", "periodic", "lm_probe",
             "lm_load", "lm_verify", "lm_tprobe", "info", "hotkeys", "recheck"}

MsgOf(site) ==
    CASE site = "auth_tok" -> TokenRequest
      [] site = "models" -> ModelsRequest
      [] site = "lm_load" -> LoadRequest
      [] site \in {"lm_verify", "info"} -> CurrentRequest
      [] site = "hotkeys" -> HotkeysRequest
      [] OTHER -> StateRequest

\* Variant of HasTimeout: the verification read is not under wait_for.
HasTimeout_NoVerify(site) == site \notin {"auth_tok", "models", "lm_verify"}

\* The call sites wrapped in asyncio.wait_for: every one but the token
\* request of auth and get_available_models in the driver.
HasTimeout(site) == site \notin {"auth_tok", "models"}

\* The model the driver is processing (model["modelID"]).
model_id == IF idx \in 1..Len(models) THEN models[idx] ELSE 0

\* Variant of Request: every load request names the first model of the list.
Request_FirstModel(site) ==
    [msg |-> MsgOf(site),
     arg |-> IF site = "lm_load" /\ models # <<>> THEN models[1] ELSE 0,
     tok |-> IF authed THEN token ELSE 0,
     stale |-> FALSE]

\* Variant of Request: _payload never adds the token.
Request_NoToken(site) ==
    [msg |-> MsgOf(site),
     arg |-> IF site = "lm_load" THEN model_id ELSE 0,
     tok |-> 0,
     stale |-> FALSE]

\* _payload, lines 28-39: data.authenticationToken (tok; 0: absent) is added
\* when self.authed is set.
Request(site) ==
    [msg |-> MsgOf(site),
     arg |-> IF site = "lm_load" THEN model_id ELSE 0,
     tok |-> IF authed THEN token ELSE 0,
     stale |-> FALSE]

\* Entering a call site: _req starts at its first statement.
Call(site) ==
    /\ pc' = site /\ phase' = "send" /\ retried' = FALSE /\ sends' = 0
    /\ ret' = NoRet

\* websockets.connect succeeded: self.ws is a new connection with an empty
\* stream, on which nothing was authenticated.
Connected ==
    /\ ws' = "open" /\ connAuthed' = FALSE /\ inbox' = <<>>

Raised(kind, msg) == [kind |-> kind, msg |-> msg, resp |-> NoResp]
RaisedBy(kind, r) == [kind |-> kind, msg |-> r.msg, resp |-> r]

\* History kept for the load-model requests of the current load_model call.
NoteSend(site) ==
    IF site = "lm_load"
    THEN /\ loadsSent' = loadsSent + 1
         /\ lastLoadReq' = Request(site).arg
    ELSE UNCHANGED <<loadsSent, lastLoadReq>>

\* _req, lines 44-49: connect if self.ws is None, then send.  A send on a
\* connection the peer closed raises ConnectionClosed (line 55).
ReqSend ==
    /\ pc \in ReqSites /\ phase = "send"
    /\ \E up \in (IF ws = None THEN BOOLEAN ELSE {TRUE}) :
        IF ~up
        THEN /\ ret' = Raised("Exception", MsgConnection)
             /\ phase' = "ret"
             /\ UNCHANGED <<ws, pending, inbox, connAuthed, retried, sends, loadsSent, lastLoadReq>>
        ELSE IF ws = "closed"
        THEN /\ phase' = "reconnect" /\ retried' = TRUE
             /\ UNCHANGED <<ws, pending, inbox, connAuthed, ret, sends,
                            loadsSent, lastLoadReq>>
        ELSE /\ IF ws = None
                THEN /\ Connected
                     /\ pending' = <<Request(pc)>>
                ELSE /\ pending' = Append(pending, Request(pc))
                     /\ UNCHANGED <<ws, inbox, connAuthed>>
             /\ NoteSend(pc)
             /\ sends' = sends + 1
             /\ phase' = "recv"
             /\ UNCHANGED <<ret, retried>>
    /\ UNCHANGED <<token, authed, curModel, pc, exc, driverVars, attempt,
                   budgetVars, loadOutcomes, lmState>>

\* The outcome of reading frame r: json.loads fails on an empty frame, an
\* APIError becomes RuntimeError(data.message), anything else is returned.
Outcome(r) ==
    IF r.type = "Empty" THEN Raised("Exception", "JSONDecodeError")
    ELSE IF r.type = "APIError" THEN RaisedBy("RuntimeError", r)
    ELSE [kind |-> "ok", msg |-> None, resp |-> r]

\* Once the call that sent a request has ended, the request and its reply
\* are stale: whatever is still on the stream belongs to no later call.
MarkStale(q) == [i \in 1..Len(q) |-> [q[i] EXCEPT !.stale = TRUE]]

\* _req, lines 50-54 and 60-64: recv returns the next frame of the stream,
\* whichever request it answers.
ReqRecv ==
    /\ pc \in ReqSites /\ phase = "recv"
    /\ inbox # <<>>
    /\ ret' = Outcome(Head(inbox))
    /\ inbox' = MarkStale(Tail(inbox))
    /\ pending' = MarkStale(pending)
    /\ phase' = "ret"
    /\ UNCHANGED <<clientVars, connAuthed, curModel, pc, retried, sends, exc,
                   driverVars, attempt, budgetVars, histVars>>

\* Variant of ReqClosed: every ConnectionClosed is caught and retried.
ReqClosed_AlwaysReconnect ==
    /\ pc \in ReqSites /\ phase = "recv"
    /\ inbox = <<>> /\ ws = "closed"
    /\ phase' = "reconnect" /\ retried' = TRUE
    /\ UNCHANGED <<ret, sends>>
    /\ UNCHANGED <<clientVars, streamVars, curModel, pc, exc, driverVars,
                   attempt, budgetVars, histVars>>

\* recv on a connection the peer closed: ConnectionClosed.  The first one is
\* caught (line 55); one raised inside the except branch leaves _req.
ReqClosed ==
    /\ pc \in ReqSites /\ phase = "recv"
    /\ inbox = <<>> /\ ws = "closed"
    /\ IF retried
       THEN /\ ret' = Raised("Exception", MsgConnection)
            /\ phase' = "ret"
            /\ UNCHANGED <<retried, sends>>
       ELSE /\ phase' = "reconnect" /\ retried' = TRUE
            /\ UNCHANGED <<ret, sends>>
    /\ UNCHANGED <<clientVars, streamVars, curModel, pc, exc, driverVars,
                   attempt, budgetVars, histVars>>

\* _req, lines 56-59: reconnect and send the request again.
ReqReconnect ==
    /\ pc \in ReqSites /\ phase = "reconnect"
    /\ \E up \in BOOLEAN :
        IF up
        THEN /\ Connected
             /\ pending' = <<Request(pc)>>
             /\ NoteSend(pc)
             /\ sends' = sends + 1
             /\ phase' = "recv"
             /\ UNCHANGED ret
        ELSE /\ ret' = Raised("Exception", MsgConnection)
             /\ phase' = "ret"
             /\ UNCHANGED <<ws, pending, inbox, connAuthed, sends,
                            loadsSent, lastLoadReq>>
    /\ UNCHANGED <<token, authed, curModel, pc, retried, exc, driverVars,
                   attempt, budgetVars, loadOutcomes, lmState>>

\* asyncio.wait_for gives up: the reply has not arrived.  The request stays
\* on the stream, unanswered; its reply, if it comes, is a stale frame.
ReqTimeout ==
    /\ pc \in ReqSites /\ phase = "recv" /\ HasTimeout(pc)
    /\ inbox = <<>> /\ ws = "open"
    /\ faults < FaultBudget
    /\ faults' = faults + 1
    /\ pending' = MarkStale(pending)
    /\ ret' = Raised("Timeout", None)
    /\ phase' = "ret"
    /\ UNCHANGED <<clientVars, inbox, connAuthed, curModel, pc, retried, sends, exc,
                   driverVars, attempt, histVars>>

\* ------------------------------------------------------ the remote's side
\* The success reply to request q, the remote having model cur loaded.
SuccessReply(q, cur) ==
    CASE q.msg = TokenRequest ->
            Reply("AuthenticationTokenResponse", 0, <<>>, None, q.stale)
      [] q.msg = AuthRequest ->
            Reply("AuthenticationResponse", 0, <<>>, None, q.stale)
      [] q.msg = StateRequest ->
            Reply("APIStateResponse", 0, <<>>, None, q.stale)
      [] q.msg = ModelsRequest ->
            Reply("AvailableModelsResponse", 0, <<>>, None, q.stale)
      [] q.msg = LoadRequest ->
            Reply("ModelLoadResponse", q.arg, <<>>, None, q.stale)
      [] q.msg = CurrentRequest ->
            Reply("CurrentModelResponse", cur, <<>>, None, q.stale)
      [] OTHER ->
            Reply("HotkeysInCurrentModelResponse", cur, HotkeysOf(cur), None,
                  q.stale)

\* The error texts the remote may answer request q with.
ErrorsFor(q) ==
    CASE q.msg = TokenRequest -> {ErrOngoing, ErrOther}
      [] q.msg = LoadRequest -> {ErrCannotChange, ErrCooldown, ErrOther}
      [] OTHER -> {ErrOther}

FailureReplies(q) ==
    {Reply("APIError", 0, <<>>, m, q.stale) : m \in ErrorsFor(q)}
    \cup (IF q.msg = AuthRequest
          THEN {Reply("Empty", 0, <<>>, None, q.stale)} ELSE {})

\* The client is at a recv (at a send): the points where it observes the
\* connection.  What the remote does while the client is elsewhere is seen
\* only there, so the remote's steps are taken at these points.
Receiving == phase = "recv" \/ pc = "auth_recv"
Sending == phase = "send" \/ pc = "auth_send"

\* The remote answers the oldest unanswered request of the connection.  A
\* successful load makes the requested model the current one.
RemoteReply ==
    /\ ws = "open" /\ pending # <<>>
    /\ Receiving
    /\ LET q == Head(pending) IN
        /\ pending' = Tail(pending)
        /\ \/ /\ inbox' = Append(inbox, SuccessReply(q, curModel))
              /\ curModel' = IF q.msg = LoadRequest THEN q.arg ELSE curModel
              /\ connAuthed' = (connAuthed \/ q.msg = AuthRequest)
              /\ UNCHANGED faults
           \/ /\ faults < FaultBudget
              /\ faults' = faults + 1
              /\ \E r \in FailureReplies(q) : inbox' = Append(inbox, r)
              /\ UNCHANGED <<curModel, connAuthed>>
    /\ UNCHANGED <<clientVars, pc, phase, retried, sends, ret, exc, driverVars,
                   attempt, histVars>>

\* The remote closes the connection; what it had not answered is lost.
RemoteClose ==
    /\ ws = "open" /\ (Sending \/ Receiving)
    /\ faults < FaultBudget
    /\ faults' = faults + 1
    /\ ws' = "closed"
    /\ pending' = <<>>
    /\ UNCHANGED <<token, authed, inbox, connAuthed, curModel, pc, phase,
                   retried, sends, ret, exc, driverVars, attempt, histVars>>

\* ------------------------------------------------------------ VTSAPI.auth
\* An exception that leaves the driver's try block: the outer except clause
\* (core.py line 184).
Fatal(type, msg) ==
    /\ exc' = [type |-> type, msg |-> msg]
    /\ pc' = "fatal" /\ phase' = None /\ ret' = NoRet

\* check_models_and_hotkeys, lines 18-29: find_live2d_root, VTSAPI(), and
\* the _conn call that opens auth.
Start ==
    /\ pc = "start"
    /\ \E root \in BOOLEAN :
        IF ~root
        THEN /\ pc' = "done" /\ returned' = "None"
             /\ UNCHANGED <<ws, pending, inbox, connAuthed, phase, retried, sends,
                            ret, exc>>
        ELSE \E up \in BOOLEAN :
            IF up
            THEN /\ Connected /\ pending' = <<>>
                 /\ Call("auth_tok")
                 /\ UNCHANGED <<exc, returned>>
            ELSE /\ Fatal("Exception", MsgConnection)
                 /\ UNCHANGED <<ws, pending, inbox, connAuthed, retried, sends, returned>>
    /\ UNCHANGED <<token, authed, curModel, interactive, selected_ids,
                   models, idx, results, failed_models, info,
                   successful_models, attempt, budgetVars, histVars>>

\* Variant of AuthTokDone: the "ongoing" error is swallowed and auth goes on
\* to its authentication request.
AuthTokDone_Swallow ==
    /\ pc = "auth_tok" /\ phase = "ret"
    /\ IF ret.kind = "ok"
       THEN IF ret.resp.type = "AuthenticationTokenResponse"
            THEN /\ token' = 1
                 /\ pc' = "auth_send" /\ phase' = None /\ ret' = NoRet
                 /\ UNCHANGED exc
            ELSE /\ Fatal("Exception", MsgKeyError)
                 /\ UNCHANGED token
       ELSE /\ IF ret.kind = "RuntimeError" /\ ret.msg = ErrOngoing
               THEN /\ pc' = "auth_send" /\ phase' = None /\ ret' = NoRet
                    /\ UNCHANGED exc
               ELSE Fatal(ret.kind, ret.msg)
            /\ UNCHANGED token
    /\ UNCHANGED <<ws, authed, streamVars, curModel, retried, sends, driverVars,
                   attempt, budgetVars, histVars>>

\* auth, lines 70-79: the token request returned or raised.
AuthTokDone ==
    /\ pc = "auth_tok" /\ phase = "ret"
    /\ IF ret.kind = "ok"
       THEN IF ret.resp.type = "AuthenticationTokenResponse"
            THEN /\ token' = 1
                 /\ pc' = "auth_send" /\ phase' = None /\ ret' = NoRet
                 /\ UNCHANGED exc
            ELSE /\ Fatal("Exception", MsgKeyError)
                 /\ UNCHANGED token
       ELSE /\ IF ret.kind = "RuntimeError" /\ ret.msg = ErrOngoing
               THEN Fatal("RuntimeError", MsgAuthPending)
               ELSE Fatal(ret.kind, ret.msg)
            /\ UNCHANGED token
    /\ UNCHANGED <<ws, authed, streamVars, curModel, retried, sends, driverVars,
                   attempt, budgetVars, histVars>>

\* auth, lines 81-83: the authentication request is sent with self.ws.send,
\* not through _req: no reconnect.
AuthSend ==
    /\ pc = "auth_send"
    /\ IF ws = "open"
       THEN /\ pending' = Append(pending,
                 [msg |-> AuthRequest, arg |-> 0, tok |-> token,
                  stale |-> FALSE])
            /\ pc' = "auth_recv"
            /\ UNCHANGED <<exc, phase, ret>>
       ELSE /\ Fatal("Exception", MsgConnection)
            /\ UNCHANGED pending
    /\ UNCHANGED <<clientVars, inbox, connAuthed, curModel, retried, sends,
                   driverVars, attempt, budgetVars, histVars>>

\* Variant of AuthRecv: the reply is not tested, an empty frame sets authed.
AuthRecv_NoCheck ==
    /\ pc = "auth_recv"
    /\ \/ /\ inbox # <<>>
          /\ inbox' = Tail(inbox)
          /\ authed' = TRUE
          /\ Call("init_probe")
          /\ UNCHANGED exc
       \/ /\ inbox = <<>> /\ ws = "closed"
          /\ Fatal("Exception", MsgConnection)
          /\ UNCHANGED <<authed, inbox, retried, sends>>
    /\ UNCHANGED <<ws, token, pending, connAuthed, curModel, driverVars,
                   attempt, budgetVars, histVars>>

\* auth, lines 84-89: any non-empty frame sets authed.
AuthRecv ==
    /\ pc = "auth_recv"
    /\ \/ /\ inbox # <<>>
          /\ inbox' = Tail(inbox)
          /\ IF Head(inbox).type = "Empty"
             THEN /\ Fatal("RuntimeError", MsgAuthFailed)
                  /\ UNCHANGED <<authed, retried, sends>>
             ELSE /\ authed' = TRUE
                  /\ Call("init_probe")
                  /\ UNCHANGED exc
       \/ /\ inbox = <<>> /\ ws = "closed"
          /\ Fatal("Exception", MsgConnection)
          /\ UNCHANGED <<authed, inbox, retried, sends>>
    /\ UNCHANGED <<ws, token, pending, connAuthed, curModel, driverVars,
                   attempt, budgetVars, histVars>>

\* ------------------------------------------------ check_models_and_hotkeys
\* core.py line 43: the models whose modelID is selected, in list order.
Selected(m) == ~selected_ids.on \/ m \in selected_ids.ids
FilterModels(list) == SelectSeq(list, Selected)

\* core.py lines 35-39: the start-up probe; its result only prints.
InitProbeDone ==
    /\ pc = "init_probe" /\ phase = "ret"
    /\ Call("models")
    /\ UNCHANGED <<clientVars, streamVars, curModel, exc, driverVars,
                   attempt, budgetVars, histVars>>

\* core.py lines 41-56 with get_available_models (vts_client.py 91-94).
ModelsDone ==
    /\ pc = "models" /\ phase = "ret"
    /\ IF ret.kind = "ok"
       THEN IF ret.resp.type = "AvailableModelsResponse"
            THEN /\ models' = FilterModels(AvailableModels)
                 /\ idx' = 1
                 /\ pc' = "loop" /\ phase' = None /\ ret' = NoRet
                 /\ UNCHANGED exc
            ELSE /\ Fatal("Exception", MsgKeyError)
                 /\ UNCHANGED <<models, idx>>
       ELSE /\ Fatal(ret.kind, ret.msg)
            /\ UNCHANGED <<models, idx>>
    /\ UNCHANGED <<clientVars, streamVars, curModel, retried, sends, interactive,
                   selected_ids, results, failed_models, info,
                   successful_models, returned, attempt, budgetVars,
                   histVars>>

\* core.py line 75: load_model is entered; it starts with a probe (line 108).
EnterLoadModel ==
    /\ Call("lm_probe")
    /\ attempt' = 0
    /\ lmState' = "running" /\ loadsSent' = 0 /\ loadOutcomes' = <<>>

\* Variant of PeriodicDue: the first model is probed too.
PeriodicDue_AlsoFirst == (idx - 1) % ProbeEvery = 0

\* core.py lines 57-66: the loop head and the periodic probe.
PeriodicDue == (idx - 1) % ProbeEvery = 0 /\ idx - 1 > 0

LoopHead ==
    /\ pc = "loop"
    /\ IF idx > Len(models)
       THEN /\ pc' = "close"
            /\ UNCHANGED <<phase, retried, sends, ret, attempt,
                           lmState, loadsSent, loadOutcomes>>
       ELSE IF PeriodicDue
       THEN /\ Call("periodic")
            /\ UNCHANGED <<attempt, lmState, loadsSent, loadOutcomes>>
       ELSE EnterLoadModel
    /\ UNCHANGED <<clientVars, streamVars, curModel, exc, driverVars,
                   budgetVars, lastLoadReq>>

\* core.py lines 66-75: a false periodic probe pauses for the operator in
\* interactive mode; the model is processed either way.
PeriodicDone ==
    /\ pc = "periodic" /\ phase = "ret"
    /\ IF ret.kind # "ok" /\ interactive
       THEN /\ pc' = "wait_periodic" /\ phase' = None /\ ret' = NoRet
            /\ UNCHANGED <<retried, sends, attempt, lmState, loadsSent,
                           loadOutcomes>>
       ELSE EnterLoadModel
    /\ UNCHANGED <<clientVars, streamVars, curModel, exc, driverVars,
                   budgetVars, lastLoadReq>>

\* ------------------------------------------------------- VTSAPI.load_model
\* Variant of Raise: the exception is not caught inside the loop.
Raise_Uncaught(type, msg) ==
    /\ exc' = [type |-> type, msg |-> msg]
    /\ pc' = "fatal" /\ phase' = None /\ ret' = NoRet

\* load_model raises: the exception reaches the except clauses of core.py.
Raise(type, msg) ==
    /\ exc' = [type |-> type, msg |-> msg]
    /\ pc' = "except" /\ phase' = None /\ ret' = NoRet

\* Variant of Retry: the attempt is not counted.
Retry_NoCount ==
    /\ attempt' = attempt
    /\ Call("lm_load")

\* The next iteration of "for attempt in range(max_retries)".
Retry ==
    /\ attempt' = attempt + 1
    /\ Call("lm_load")

\* Variant of CooldownClass: only the first of the two texts is looked for.
CooldownClass_FirstOnly(msg) == msg \in {ErrCannotChange}

\* vts_client.py line 149.
CooldownClass(msg) == msg \in {ErrCannotChange, ErrCooldown}

\* What the load request of an attempt came to, for the history: "stale"
\* when the frame read answers an earlier request, "resent" when the request
\* was sent again after a reconnect.
LoadOutcome(r) ==
    IF r.resp.stale THEN "stale"
    ELSE IF retried THEN "resent"
    ELSE CASE r.kind = "ok" -> "ok"
           [] r.kind = "RuntimeError" -> r.msg
           [] r.kind = "Timeout" -> "timeout"
           [] OTHER -> "exception"

\* Variant of LmProbeDone: the result of the probe is not looked at.
LmProbeDone_Ignore ==
    /\ pc = "lm_probe" /\ phase = "ret"
    /\ Call("lm_load")
    /\ UNCHANGED <<exc, lmState>>
    /\ UNCHANGED <<clientVars, streamVars, curModel, driverVars, attempt,
                   budgetVars, loadsSent, loadOutcomes, lastLoadReq>>

\* vts_client.py lines 108-110: check_vts_state before any load.
LmProbeDone ==
    /\ pc = "lm_probe" /\ phase = "ret"
    /\ IF ret.kind = "ok"
       THEN /\ Call("lm_load")
            /\ UNCHANGED <<exc, lmState>>
       ELSE /\ Raise("RuntimeError", MsgProbeFailed)
            /\ lmState' = "raised"
            /\ UNCHANGED <<retried, sends>>
    /\ UNCHANGED <<clientVars, streamVars, curModel, driverVars, attempt,
                   budgetVars, loadsSent, loadOutcomes, lastLoadReq>>

\* vts_client.py lines 112-121 and 134-171: the load request returned or
\* raised, in attempt number `attempt` (0-based).
LmLoadDone ==
    /\ pc = "lm_load" /\ phase = "ret"
    /\ loadOutcomes' = Append(loadOutcomes, LoadOutcome(ret))
    /\ LET last == ~(attempt < max_retries - 1) IN
       CASE ret.kind = "ok" ->
              /\ Call("lm_verify")
              /\ UNCHANGED <<exc, attempt, lmState>>
         [] ret.kind = "Timeout" ->
              IF ~last
              THEN /\ Call("lm_tprobe")
                   /\ UNCHANGED <<exc, attempt, lmState>>
              ELSE /\ Raise("RuntimeError", MsgLoadTimeout)
                   /\ lmState' = "raised"
                   /\ UNCHANGED <<attempt, retried, sends>>
         [] ret.kind = "RuntimeError" ->
              IF CooldownClass(ret.msg) /\ ~last
              THEN /\ Retry
                   /\ UNCHANGED <<exc, lmState>>
              ELSE /\ Raise("RuntimeError", ret.msg)
                   /\ lmState' = "raised"
                   /\ UNCHANGED <<attempt, retried, sends>>
         [] OTHER ->
              IF ~last
              THEN /\ Retry
                   /\ UNCHANGED <<exc, lmState>>
              ELSE /\ Raise("Exception", ret.msg)
                   /\ lmState' = "raised"
                   /\ UNCHANGED <<attempt, retried, sends>>
    /\ UNCHANGED <<clientVars, streamVars, curModel, driverVars, budgetVars,
                   loadsSent, lastLoadReq>>

\* vts_client.py lines 124-132 with force_clear_model_state (189-203): the
\* verification read.  On the last attempt the RuntimeError raised at line
\* 130 is caught at line 147 and raised again at line 160.
LmVerifyDone ==
    /\ pc = "lm_verify" /\ phase = "ret"
    /\ IF ret.kind = "ok"
       THEN /\ lmState' = "returned"
            /\ Call("info")
            /\ UNCHANGED <<exc, attempt>>
       ELSE IF attempt < max_retries - 1
       THEN /\ Retry
            /\ UNCHANGED <<exc, lmState>>
       ELSE /\ Raise("RuntimeError", MsgDialogAfterLoad)
            /\ lmState' = "raised"
            /\ UNCHANGED <<attempt, retried, sends>>
    /\ UNCHANGED <<clientVars, streamVars, curModel, driverVars, budgetVars,
                   loadsSent, loadOutcomes, lastLoadReq>>

\* vts_client.py lines 136-142: the probe made after a load timeout.
LmTProbeDone ==
    /\ pc = "lm_tprobe" /\ phase = "ret"
    /\ IF ret.kind = "ok"
       THEN /\ Retry
            /\ UNCHANGED <<exc, lmState>>
       ELSE /\ Raise("RuntimeError", MsgBlockedTimeout)
            /\ lmState' = "raised"
            /\ UNCHANGED <<attempt, retried, sends>>
    /\ UNCHANGED <<clientVars, streamVars, curModel, driverVars, budgetVars,
                   loadsSent, loadOutcomes, lastLoadReq>>

\* ------------------------------------------- the driver, after load_model
\* utils.find_icon: the folder named by the modelFileName hint if there is
\* one and it exists, else the folder matching the model name; the default
\* icon when neither holds an image.  Folders with an image: odd models.
HasIconDir(m) == m \in 1..NumModels /\ m % 2 = 1
IconIn(m) == "icon of model " \o ToString(m)
find_icon(model_file_name, model_name) ==
    IF model_file_name # 0 /\ HasIconDir(model_file_name)
    THEN IconIn(model_file_name)
    ELSE IF HasIconDir(model_name) THEN IconIn(model_name)
    ELSE DEFAULT_ICON

\* A result entry.  skipped: the modelName carries the "(skipped)" suffix.
Entry(m, skipped, icon, hotkeys) ==
    [modelID |-> m, skipped |-> skipped, icon |-> icon, hotkeys |-> hotkeys]

\* core.py line 120: the placeholder of a model.
Placeholder(m) == Entry(m, TRUE, DEFAULT_ICON, <<>>)

\* The loop moves on to the next model.
NextModel ==
    /\ idx' = idx + 1
    /\ pc' = "loop" /\ phase' = None /\ ret' = NoRet /\ exc' = NoExc
    /\ lmState' = "idle" /\ loadsSent' = 0 /\ loadOutcomes' = <<>>
    /\ info' = NoResp

\* core.py lines 78-81: current_model_info under wait_for(5).
InfoDone ==
    /\ pc = "info" /\ phase = "ret"
    /\ IF ret.kind = "ok"
       THEN /\ info' = ret.resp
            /\ Call("hotkeys")
            /\ UNCHANGED exc
       ELSE /\ Raise(ret.kind, ret.msg)
            /\ UNCHANGED <<info, retried, sends>>
    /\ UNCHANGED <<clientVars, streamVars, curModel, interactive,
                   selected_ids, models, idx, results, failed_models,
                   successful_models, returned, attempt, budgetVars,
                   histVars>>

\* The entry the driver appends once both reads returned (lines 86-100):
\* modelFileName of the frame kept as info (absent unless it is a
\* current-model reply), availableHotkeys of the frame read as the hotkeys
\* reply (empty when the frame has none).
ModelFileName(frame) ==
    IF frame.type = "CurrentModelResponse" THEN frame.model ELSE 0

SuccessEntry(hk) ==
    Entry(model_id, FALSE, find_icon(ModelFileName(info), model_id),
          hk.hotkeys)

\* core.py lines 82-100: get_hotkeys_in_current_model under wait_for(5),
\* then the entry is appended.
HotkeysDone ==
    /\ pc = "hotkeys" /\ phase = "ret"
    /\ IF ret.kind = "ok"
       THEN /\ results' = Append(results, SuccessEntry(ret.resp))
            /\ NextModel
            /\ UNCHANGED <<retried, sends>>
       ELSE /\ Raise(ret.kind, ret.msg)
            /\ UNCHANGED <<results, idx, info, retried, sends,
                           lmState, loadsSent, loadOutcomes>>
    /\ UNCHANGED <<clientVars, streamVars, curModel, interactive,
                   selected_ids, models, failed_models, successful_models,
                   returned, attempt, budgetVars, lastLoadReq>>

\* core.py line 130 and line 145: the driver's reading of an error text.
BlockedText(msg) ==
    msg \in {MsgProbeFailed, MsgBlockedTimeout, MsgDialogAfterLoad}
BusyText(msg) == msg \in {ErrCannotChange}

\* Variant of Skip: no clause appends a placeholder.
Skip_NoAppend(placeholder) ==
    /\ failed_models' = failed_models + 1
    /\ results' = results
    /\ NextModel

\* The tail of an except clause: count the failure, append the placeholder
\* if this clause appends one, continue with the next model.
Skip(placeholder) ==
    /\ failed_models' = failed_models + 1
    /\ results' = IF placeholder
                  THEN Append(results, Placeholder(model_id))
                  ELSE results
    /\ NextModel

\* wait_for_user_input is entered: the driver blocks until the operator acts.
Pause(at) ==
    /\ pc' = at
    /\ UNCHANGED <<phase, ret, exc, idx, results, failed_models, info,
                   lmState, loadsSent, loadOutcomes>>

\* core.py lines 102-125: except asyncio.TimeoutError.
ExceptTimeout ==
    /\ pc = "except" /\ exc.type = "Timeout"
    /\ IF interactive
       THEN Pause("wait_timeout")
       ELSE Skip(TRUE)
    /\ UNCHANGED <<clientVars, streamVars, curModel, retried, sends, interactive,
                   selected_ids, models, successful_models, returned,
                   attempt, budgetVars, lastLoadReq>>

\* core.py lines 126-144: except Exception, the error-dialog texts.  The
\* wait for the operator does not look at `interactive`.
ExceptBlocked ==
    /\ pc = "except" /\ exc.type # "Timeout" /\ BlockedText(exc.msg)
    /\ Pause("wait_blocked")
    /\ UNCHANGED <<clientVars, streamVars, curModel, retried, sends, interactive,
                   selected_ids, models, successful_models, returned,
                   attempt, budgetVars, lastLoadReq>>

\* core.py lines 145-155 and 169-171: the remote is busy.
ExceptBusy ==
    /\ pc = "except" /\ exc.type # "Timeout"
    /\ ~BlockedText(exc.msg) /\ BusyText(exc.msg)
    /\ IF interactive
       THEN Pause("wait_busy")
       ELSE Skip(FALSE)
    /\ UNCHANGED <<clientVars, streamVars, curModel, retried, sends, interactive,
                   selected_ids, models, successful_models, returned,
                   attempt, budgetVars, lastLoadReq>>

\* core.py lines 157-171: any other error.
ExceptUnknown ==
    /\ pc = "except" /\ exc.type # "Timeout"
    /\ ~BlockedText(exc.msg) /\ ~BusyText(exc.msg)
    /\ IF interactive
       THEN Pause("wait_unknown")
       ELSE Skip(FALSE)
    /\ UNCHANGED <<clientVars, streamVars, curModel, retried, sends, interactive,
                   selected_ids, models, successful_models, returned,
                   attempt, budgetVars, lastLoadReq>>

\* utils.wait_for_user_input returns (the operator pressed Enter), and the
\* clause that called it goes on.
UserAck ==
    /\ pc \in {"wait_periodic", "wait_timeout", "wait_blocked", "wait_busy",
               "wait_unknown"}
    /\ CASE pc = "wait_periodic" ->
              /\ EnterLoadModel
              /\ UNCHANGED <<exc, idx, results, failed_models, info>>
         [] pc = "wait_blocked" ->
              /\ Call("recheck")
              /\ UNCHANGED <<exc, idx, results, failed_models, info, attempt,
                             lmState, loadsSent, loadOutcomes>>
         [] pc = "wait_timeout" ->
              /\ Skip(TRUE)
              /\ UNCHANGED <<retried, sends, attempt>>
         [] OTHER ->
              /\ Skip(FALSE)
              /\ UNCHANGED <<retried, sends, attempt>>
    /\ UNCHANGED <<clientVars, streamVars, curModel, interactive,
                   selected_ids, models, successful_models, returned,
                   budgetVars, lastLoadReq>>

\* core.py lines 141-144 and 169-171: the probe after the pause only
\* prints; the model is skipped without a placeholder.
RecheckDone ==
    /\ pc = "recheck" /\ phase = "ret"
    /\ Skip(FALSE)
    /\ UNCHANGED <<clientVars, streamVars, curModel, retried, sends, interactive,
                   selected_ids, models, successful_models, returned,
                   attempt, budgetVars, lastLoadReq>>

\* Variant of close: the connection is closed without looking at self.ws.
close_Always(w) == "closed"

\* VTSAPI.close (vts_client.py 205-208).
\* close applied to a client whose self.ws is w: nothing when self.ws is
\* None; closing a connection that is closed already changes nothing.
close(w) == IF w = None THEN None ELSE "closed"

CloseWs == close(ws)

\* core.py lines 173-182: close, the statistics, return results.
Finish ==
    /\ pc = "close"
    /\ ws' = CloseWs
    /\ successful_models' = Len(results) - failed_models
    /\ returned' = "results"
    /\ pc' = "done"
    /\ UNCHANGED <<token, authed, streamVars, curModel, phase, retried, sends, ret,
                   exc, interactive, selected_ids, models, idx, results,
                   failed_models, info, attempt, budgetVars, histVars>>

\* Variant of Abort: the outer except clause returns without closing.
Abort_NoClose ==
    /\ pc = "fatal"
    /\ returned' = "None"
    /\ pc' = "done"
    /\ UNCHANGED <<ws, token, authed, streamVars, curModel, phase, retried,
                   sends, ret, exc, interactive, selected_ids, models, idx,
                   results, failed_models, info, successful_models, attempt,
                   budgetVars, histVars>>

\* core.py lines 184-187: the outer except clause closes and returns None.
Abort ==
    /\ pc = "fatal"
    /\ ws' = CloseWs
    /\ returned' = "None"
    /\ pc' = "done"
    /\ UNCHANGED <<token, authed, streamVars, curModel, phase, retried, sends, ret,
                   exc, interactive, selected_ids, models, idx, results,
                   failed_models, info, successful_models, attempt,
                   budgetVars, histVars>>

Next ==
    \/ Start /\ UNCHANGED <<uuidVars, genVars, guiVars>>
    \/ AuthTokDone /\ UNCHANGED <<uuidVars, genVars, guiVars>>
    \/ AuthSend /\ UNCHANGED <<uuidVars, genVars, guiVars>>
    \/ AuthRecv /\ UNCHANGED <<uuidVars, genVars, guiVars>>
    \/ ReqSend /\ UNCHANGED <<uuidVars, genVars, guiVars>>
    \/ ReqRecv /\ UNCHANGED <<uuidVars, genVars, guiVars>>
    \/ ReqClosed /\ UNCHANGED <<uuidVars, genVars, guiVars>>
    \/ ReqReconnect /\ UNCHANGED <<uuidVars, genVars, guiVars>>
    \/ ReqTimeout /\ UNCHANGED <<uuidVars, genVars, guiVars>>
    \/ RemoteReply /\ UNCHANGED <<uuidVars, genVars, guiVars>>
    \/ RemoteClose /\ UNCHANGED <<uuidVars, genVars, guiVars>>
    \/ InitProbeDone /\ UNCHANGED <<uuidVars, genVars, guiVars>>
    \/ ModelsDone /\ UNCHANGED <<uuidVars, genVars, guiVars>>
    \/ LoopHead /\ UNCHANGED <<uuidVars, genVars, guiVars>>
    \/ PeriodicDone /\ UNCHANGED <<uuidVars, genVars, guiVars>>
    \/ LmProbeDone /\ UNCHANGED <<uuidVars, genVars, guiVars>>
    \/ LmLoadDone /\ UNCHANGED <<uuidVars, genVars, guiVars>>
    \/ LmVerifyDone /\ UNCHANGED <<uuidVars, genVars, guiVars>>
    \/ LmTProbeDone /\ UNCHANGED <<uuidVars, genVars, guiVars>>
    \/ InfoDone /\ UNCHANGED <<uuidVars, genVars, guiVars>>
    \/ HotkeysDone /\ UNCHANGED <<uuidVars, genVars, guiVars>>
    \/ ExceptTimeout /\ UNCHANGED <<uuidVars, genVars, guiVars>>
    \/ ExceptBlocked /\ UNCHANGED <<uuidVars, genVars, guiVars>>
    \/ ExceptBusy /\ UNCHANGED <<uuidVars, genVars, guiVars>>
    \/ ExceptUnknown /\ UNCHANGED <<uuidVars, genVars, guiVars>>
    \/ UserAck /\ UNCHANGED <<uuidVars, genVars, guiVars>>
    \/ RecheckDone /\ UNCHANGED <<uuidVars, genVars, guiVars>>
    \/ Finish /\ UNCHANGED <<uuidVars, genVars, guiVars>>
    \/ Abort /\ UNCHANGED <<uuidVars, genVars, guiVars>>

Spec == Init /\ [][Next]_vars

\* ---------------------------------------------- uuid_manager: the lookups
\* load_or_generate_uuids (lines 13-46) on file f, uuid4 standing at n: the
\* mapping it returns, the file it leaves and where uuid4 stands then.  A
\* flat object holding a key "home" or "models" is taken for the new format
\* and returned as it is (shape "raw").  The default of data.get("Home", ...)
\* is evaluated whether "Home" is there or not.
load_or_generate_uuids(f, n) ==
    IF f.fmt = "flat"
    THEN IF {"home", "models"} \cap DOMAIN f.flat = {}
         THEN [shape |-> "nested",
               home |-> IF "Home" \in DOMAIN f.flat
                        THEN f.flat["Home"] ELSE uuid4(n),
               models |-> Without(f.flat, "Home"), raw |-> EmptyMap,
               file |-> f, next |-> n + 1]
         ELSE [shape |-> "raw", home |-> "", models |-> EmptyMap,
               raw |-> f.flat, file |-> f, next |-> n]
    ELSE IF f.fmt = "nested"
    THEN [shape |-> "nested", home |-> f.home, models |-> f.models,
          raw |-> EmptyMap, file |-> f, next |-> n]
    ELSE [shape |-> "nested", home |-> uuid4(n), models |-> EmptyMap,
          raw |-> EmptyMap, file |-> NestedFile(uuid4(n), EmptyMap),
          next |-> n + 1]

\* Variant of get_model_uuid: an id is generated and saved on every lookup.
get_model_uuid_Always(name, f, n) ==
    LET u == load_or_generate_uuids(f, n) IN
    [out |-> [kind |-> "ok", id |-> uuid4(u.next)],
     file |-> NestedFile(u.home, Extend(u.models, name, uuid4(u.next))),
     next |-> u.next + 1]

\* get_model_uuid (lines 55-63).  On a "raw" mapping uuids["models"] is an
\* id string (item assignment raises TypeError) or is missing (KeyError).
get_model_uuid(name, f, n) ==
    LET u == load_or_generate_uuids(f, n) IN
    IF u.shape = "raw"
    THEN [out |-> [kind |-> IF "models" \in DOMAIN u.raw
                            THEN "TypeError" ELSE "KeyError",
                   id |-> ""],
          file |-> u.file, next |-> u.next]
    ELSE IF name \notin DOMAIN u.models
    THEN [out |-> [kind |-> "ok", id |-> uuid4(u.next)],
          file |-> NestedFile(u.home, Extend(u.models, name, uuid4(u.next))),
          next |-> u.next + 1]
    ELSE [out |-> [kind |-> "ok", id |-> u.models[name]],
          file |-> u.file, next |-> u.next]

\* get_home_uuid (lines 49-52).
get_home_uuid(f, n) ==
    LET u == load_or_generate_uuids(f, n) IN
    IF u.shape = "raw"
    THEN [out |-> IF "home" \in DOMAIN u.raw
                  THEN [kind |-> "ok", id |-> u.raw["home"]]
                  ELSE [kind |-> "KeyError", id |-> ""],
          file |-> u.file, next |-> u.next]
    ELSE [out |-> [kind |-> "ok", id |-> u.home],
          file |-> u.file, next |-> u.next]

GetModelUuid ==
    /\ nextId < MaxIds
    /\ \E name \in Names :
        LET r == get_model_uuid(name, ufile, nextId) IN
        /\ ufile' = r.file /\ nextId' = r.next
        /\ ulast' = [op |-> "get_model_uuid", name |-> name, out |-> r.out,
                     rep |-> ulast.op = "get_model_uuid" /\ ulast.name = name]
    /\ UNCHANGED <<runVars, genVars, guiVars>>

GetHomeUuid ==
    /\ nextId < MaxIds
    /\ LET r == get_home_uuid(ufile, nextId) IN
        /\ ufile' = r.file /\ nextId' = r.next
        /\ ulast' = [op |-> "get_home_uuid", name |-> "", out |-> r.out,
                     rep |-> ulast.op = "get_home_uuid"]
    /\ UNCHANGED <<runVars, genVars, guiVars>>

\* The calls of uuid_manager, on any file the program may find.
UuidInit ==
    /\ RunInit /\ ~interactive /\ ~selected_ids.on
    /\ ufile \in Files /\ nextId = 1 /\ ulast = NoLookup
    /\ GenIdle /\ GuiIdle

UuidNext == GetModelUuid \/ GetHomeUuid

UuidSpec == UuidInit /\ [][UuidNext]_vars

\* ------------------------------------------- config: the slots of a page
COLUMNS == 5
ROWS == 3

slot(col, row) == ToString(col) \o "," \o ToString(row)

\* Lines 36-37: the rows from the top one (ROWS-1) down, each left to right.
ALL_SLOTS ==
    [i \in 1..(COLUMNS * ROWS) |->
        slot((i - 1) % COLUMNS, ROWS - 1 - ((i - 1) \div COLUMNS))]
PREV_SLOT == slot(0, 0)
NEXT_SLOT == slot(COLUMNS - 1, 0)
USABLE == SelectSeq(ALL_SLOTS, LAMBDA s : s \notin {PREV_SLOT, NEXT_SLOT})

\* ------------------------------------- profile_generator: pages and slots
MaxEntries == 41
MaxHotkeys == 41
ShortList == 2

Min(a, b) == IF a < b THEN a ELSE b

\* mk_btn: the fields of a button the generator chooses.  model, hotkey and
\* ProfileUUID are the settings selectModelID, selectHotKeyID and
\* ProfileUUID (0 or "" when the button has none).
mk_btn(name, uuid_key, model, hotkey, profile) ==
    [Name |-> name, UUID |-> uuid_key, model |-> model, hotkey |-> hotkey,
     ProfileUUID |-> profile]

KeyPrevious == "page.previous"
KeyNext == "page.next"
KeySwitchModel == "VtubeStudio.action1"
KeyHotkey == "VtubeStudio.action2"
KeyProfile == "profile.rotate"

\* One assignment acts[sl] = btn; a page is the sequence of its assignments
\* in program order (the manifest keeps the last one of each slot).
Assign(sl, btn) == [slot |-> sl, btn |-> btn]

\* Lines 133-136 and 293-296: the navigation buttons of a page.
NavButtons(page_idx, total_pages) ==
    (IF page_idx > 0
     THEN <<Assign(PREV_SLOT, mk_btn("Previous", KeyPrevious, 0, 0, ""))>>
     ELSE <<>>)
    \o (IF page_idx < total_pages - 1
        THEN <<Assign(NEXT_SLOT, mk_btn("Next", KeyNext, 0, 0, ""))>>
        ELSE <<>>)

\* Lines 139-143 and 299-303: the slots a page offers to its items.
current_usable(page_idx, total_pages) ==
    (IF page_idx = 0 THEN <<PREV_SLOT>> ELSE <<>>)
    \o USABLE
    \o (IF page_idx = total_pages - 1 THEN <<NEXT_SLOT>> ELSE <<>>)

\* Lines 95 and 254.
rough_pages(n) == IF (n + 12) \div 13 > 1 THEN (n + 12) \div 13 ELSE 1

get_page_capacity(page_idx, total_pages) ==
    IF total_pages = 1 THEN 14
    ELSE IF page_idx = 0 THEN 14
    ELSE IF page_idx = total_pages - 1 THEN 14
    ELSE 13

\* Variant of get_home_page_capacity: every page is given all 15 slots.
get_home_page_capacity_AllSlots(page_idx, total_pages) == 15

get_home_page_capacity(page_idx, total_pages) ==
    IF total_pages = 1 THEN 15
    ELSE IF page_idx = 0 THEN 14
    ELSE IF page_idx = total_pages - 1 THEN 14
    ELSE 13

\* Lines 103-111: the while loop that cuts the hotkeys into chunks.
RECURSIVE hk_chunks_loop(_, _, _)
hk_chunks_loop(remaining_hotkeys, page_idx, rough) ==
    IF remaining_hotkeys = <<>> THEN <<>>
    ELSE LET capacity == get_page_capacity(page_idx, rough)
                         - (IF page_idx = 0 THEN 1 ELSE 0)
             k == Min(capacity, Len(remaining_hotkeys))
         IN <<SubSeq(remaining_hotkeys, 1, k)>>
            \o hk_chunks_loop(SubSeq(remaining_hotkeys, k + 1,
                                     Len(remaining_hotkeys)),
                              page_idx + 1, rough)

\* Lines 94-113.
hk_chunks(hotkeys) ==
    IF hotkeys = <<>> THEN << <<>> >>
    ELSE hk_chunks_loop(hotkeys, 0, rough_pages(Len(hotkeys)))

\* Lines 264-269.
RECURSIVE model_chunks_loop(_, _, _)
model_chunks_loop(remaining_models, page_idx, rough) ==
    IF remaining_models = <<>> THEN <<>>
    ELSE LET capacity == get_home_page_capacity(page_idx, rough)
             k == Min(capacity, Len(remaining_models))
         IN <<SubSeq(remaining_models, 1, k)>>
            \o model_chunks_loop(SubSeq(remaining_models, k + 1,
                                        Len(remaining_models)),
                                 page_idx + 1, rough)

\* Lines 252-271.
model_chunks(data) ==
    IF data = <<>> THEN << <<>> >>
    ELSE model_chunks_loop(data, 0, rough_pages(Len(data)))

home_slot == "0,2"

\* Variant of FillHotkeys: the slot of the Back-to-Home button is not
\* skipped.
RECURSIVE FillHotkeys_NoSkip(_, _, _, _)
FillHotkeys_NoSkip(chunk, slots, page_idx, model_data) ==
    IF chunk = <<>> \/ slots = <<>> THEN <<>>
    ELSE <<Assign(Head(slots),
                  mk_btn("hotkey", KeyHotkey, model_data.modelID,
                         Head(chunk), ""))>>
         \o FillHotkeys_NoSkip(Tail(chunk), Tail(slots), page_idx,
                               model_data)

\* Lines 171-191: one button per hotkey of the chunk on the next slot of the
\* iterator (j: the position of the iterator in slots); on the first page
\* the slot of the Back-to-Home button is stepped over; StopIteration ends
\* the loop.
FillHotkeys(chunk, slots, page_idx, model_data) ==
    LET fill[i \in 1..(Len(chunk) + 1), j \in 1..(Len(slots) + 2)] ==
            IF i > Len(chunk) \/ j > Len(slots) THEN <<>>
            ELSE LET sl == IF page_idx = 0 /\ slots[j] = home_slot
                           THEN j + 1 ELSE j
                 IN IF sl > Len(slots) THEN <<>>
                    ELSE <<Assign(slots[sl],
                                  mk_btn("hotkey", KeyHotkey,
                                         model_data.modelID, chunk[i], ""))>>
                         \o fill[i + 1, sl + 1]
    IN fill[1, 1]

\* Lines 129-191: the assignments of one page of a model profile; home is
\* what get_home_uuid returned.
ModelPage(model_data, page_idx, chunk, total_pages, home) ==
    LET usable == current_usable(page_idx, total_pages) IN
    NavButtons(page_idx, total_pages)
    \o (IF page_idx = 0
        THEN <<Assign(Head(usable),
                      mk_btn("switch model", KeySwitchModel,
                             model_data.modelID, 0, "")),
               Assign(home_slot,
                      mk_btn("Back to Home", KeyProfile, 0, 0, home))>>
        ELSE <<>>)
    \o FillHotkeys(chunk, IF page_idx = 0 THEN Tail(usable) ELSE usable,
                   page_idx, model_data)

Profile(name, id, pages) == [Name |-> name, ProfileUUID |-> id, pages |-> pages]

\* Lines 115-205: the pages of a model profile.
ModelPages(model_data, chunks, home) ==
    [p \in 1..Len(chunks) |->
        ModelPage(model_data, p - 1, chunks[p], Len(chunks), home)]

\* generate_model_profile_folder (lines 62-225) on UUID file f, uuid4
\* standing at n and output directory dir.  get_home_uuid is called once,
\* for the first page.
generate_model_profile_folder(model_data, f, n, dir) ==
    LET g == get_model_uuid(model_data.modelName, f, n)
        h == get_home_uuid(g.file, g.next)
    IN IF g.out.kind # "ok"
       THEN [raised |-> TRUE, dir |-> dir, file |-> g.file, next |-> g.next,
             homes |-> {}]
       ELSE IF h.out.kind # "ok"
       THEN [raised |-> TRUE,
             dir |-> Extend(dir, g.out.id, Profile("", "", <<>>)),
             file |-> h.file, next |-> h.next, homes |-> {}]
       ELSE [raised |-> FALSE,
             dir |-> Extend(dir, g.out.id,
                        Profile(model_data.modelName, g.out.id,
                            CHOOSE pages \in
                                {ModelPages(model_data, chunks, h.out.id) :
                                    chunks \in {hk_chunks(model_data.hotkeys)}} :
                                TRUE)),
             file |-> h.file, next |-> h.next, homes |-> {h.out.id}]

\* Lines 306-323: the buttons of one Home page from its i-th model on; each
\* one looks its model up in the UUID file (g: what the lookup gave).
RECURSIVE HomeButtons(_, _, _, _, _)
HomeButton(model_chunk, i, usable, g) ==
    IF g.out.kind # "ok"
    THEN [raised |-> TRUE, acts |-> <<>>, file |-> g.file, next |-> g.next]
    ELSE [HomeButtons(model_chunk, i + 1, usable, g.file, g.next)
            EXCEPT !.acts =
                <<Assign(usable[i],
                         mk_btn(model_chunk[i].modelName, KeyProfile, 0, 0,
                                g.out.id))>> \o @]

HomeButtons(model_chunk, i, usable, f, n) ==
    IF i > Len(model_chunk) \/ i > Len(usable)
    THEN [raised |-> FALSE, acts |-> <<>>, file |-> f, next |-> n]
    ELSE CHOOSE r \in
            {HomeButton(model_chunk, i, usable, g) :
                g \in {get_model_uuid(model_chunk[i].modelName, f, n)}} :
            TRUE

\* Lines 276-337: the Home pages from page p on (b: the buttons of page p).
RECURSIVE HomePages(_, _, _, _)
HomePage(chunks, p, b) ==
    IF b.raised
    THEN [raised |-> TRUE, pages |-> <<>>, file |-> b.file, next |-> b.next]
    ELSE [HomePages(chunks, p + 1, b.file, b.next)
            EXCEPT !.pages = <<NavButtons(p - 1, Len(chunks)) \o b.acts>> \o @]

HomePages(chunks, p, f, n) ==
    IF p > Len(chunks)
    THEN [raised |-> FALSE, pages |-> <<>>, file |-> f, next |-> n]
    ELSE CHOOSE r \in
            {HomePage(chunks, p, b) :
                b \in {HomeButtons(chunks[p], 1,
                                   current_usable(p - 1, Len(chunks)),
                                   f, n)}} :
            TRUE

\* Lines 232-238 and 339-358: the Home folder, given what get_home_uuid
\* returned (h) and the pages (r).
HomeFolder(h, r, dir) ==
    IF r.raised
    THEN [raised |-> TRUE,
          dir |-> Extend(dir, h.out.id, Profile("", "", <<>>)),
          file |-> r.file, next |-> r.next, homes |-> {h.out.id}]
    ELSE [raised |-> FALSE,
          dir |-> Extend(dir, h.out.id, Profile("Home", h.out.id, r.pages)),
          file |-> r.file, next |-> r.next, homes |-> {h.out.id}]

\* generate_home_profile_folder (lines 228-358).
generate_home_profile_folder(data, f, n, dir) ==
    LET h == get_home_uuid(f, n) IN
    IF h.out.kind # "ok"
    THEN [raised |-> TRUE, dir |-> dir, file |-> h.file, next |-> h.next,
          homes |-> {}]
    ELSE CHOOSE res \in
            {HomeFolder(h, r, dir) :
                r \in {CHOOSE x \in
                        {HomePages(chunks, 1, h.file, h.next) :
                            chunks \in {model_chunks(data)}} : TRUE}} :
            TRUE

\* generate_streamdeck_profiles, lines 397-407: no data returns False;
\* otherwise the output directory is emptied.
GenStart ==
    /\ gpc = "start"
    /\ IF models_data = <<>>
       THEN gpc' = "False" /\ UNCHANGED <<gi, outdir>>
       ELSE gpc' = "models" /\ gi' = 1 /\ outdir' = EmptyDir
    /\ UNCHANGED <<models_data, official, home_ids>>
    /\ UNCHANGED <<runVars, uuidVars, guiVars>>

\* Lines 410-411: one pass of the model loop.
GenModel ==
    /\ gpc = "models"
    /\ \E r \in {generate_model_profile_folder(models_data[gi], ufile,
                                                nextId, outdir)} :
          /\ outdir' = r.dir /\ ufile' = r.file /\ nextId' = r.next
          /\ home_ids' = home_ids \cup r.homes
          /\ IF r.raised THEN gpc' = "raised" /\ UNCHANGED gi
             ELSE IF gi = Len(models_data)
             THEN gpc' = "home" /\ UNCHANGED gi
             ELSE gpc' = "models" /\ gi' = gi + 1
    /\ UNCHANGED <<models_data, official, ulast>>
    /\ UNCHANGED <<runVars, guiVars>>

\* Line 414.
GenHome ==
    /\ gpc = "home"
    /\ \E r \in {generate_home_profile_folder(models_data, ufile, nextId,
                                               outdir)} :
          /\ outdir' = r.dir /\ ufile' = r.file /\ nextId' = r.next
          /\ home_ids' = home_ids \cup r.homes
          /\ gpc' = IF r.raised THEN "raised" ELSE "copy"
    /\ UNCHANGED <<models_data, gi, official, ulast>>
    /\ UNCHANGED <<runVars, guiVars>>

\* Lines 419-421, copy_to_official_directory (lines 361-392): every profile
\* folder of the output directory replaces the folder of its name in the
\* official directory.
GenCopy ==
    /\ gpc = "copy"
    /\ official' = [id \in DOMAIN official \cup DOMAIN outdir |->
                        IF id \in DOMAIN outdir THEN outdir[id]
                        ELSE official[id]]
    /\ gpc' = "True"
    /\ UNCHANGED <<models_data, gi, outdir, home_ids>>
    /\ UNCHANGED <<runVars, uuidVars, guiVars>>

\* The result entries the generator is given: entry i has modelID i; the
\* first one has h hotkeys (hotkeyIDs 1..h); with dup the second model has
\* the display name of the first.  Lists of up to ShortList entries come
\* with every number of hotkeys, longer ones with none.
NameOf(i, dup) ==
    IF i = 1 \/ (i = 2 /\ dup) THEN "Hiyori" ELSE "Model " \o ToString(i)
ModelsData(len, h, dup) ==
    [i \in 1..len |->
        [modelName |-> NameOf(i, dup), modelID |-> i,
         hotkeys |-> IF i = 1 THEN [k \in 1..h |-> k] ELSE <<>>]]
GenInputs ==
    {ModelsData(len, h, dup) :
        len \in 0..ShortList, h \in 0..MaxHotkeys, dup \in BOOLEAN}
    \cup {ModelsData(len, 0, dup) : len \in 0..MaxEntries, dup \in BOOLEAN}

\* The UUID files the generator may find: none, one that is not JSON, and
\* the files of either format an earlier run left, each name with an id of
\* its own.
StoredIdOf(name) == "stored id of " \o name
GenFiles ==
    {AbsentFile, CorruptFile}
    \cup {FlatFile([k \in D |-> StoredIdOf(k)]) : D \in SUBSET Names}
    \cup {NestedFile(StoredIdOf("Home"), [k \in D |-> StoredIdOf(k)]) :
            D \in SUBSET Names}

GenInit ==
    /\ RunInit /\ ~interactive /\ ~selected_ids.on
    /\ ufile \in GenFiles /\ nextId = 1 /\ ulast = NoLookup
    /\ models_data \in GenInputs /\ gpc = "start" /\ gi = 0
    /\ outdir = EmptyDir /\ official = EmptyDir /\ home_ids = {}
    /\ GuiIdle

GenNext == GenStart \/ GenModel \/ GenHome \/ GenCopy

GenSpec == GenInit /\ [][GenNext]_vars

\* ------------------------------------------------------------- gui.App
\* The models a fetch may find.
MaxFound == 2

ModalSites == {"auth_modal", "probe_modal", "models_modal"}
Running == {t \in 1..MaxTasks : tasks[t].kind # None}
\* _wait_modal (lines 284-298) grabs the input: while its window is open
\* the main window receives no event.
ModalOpen == \E t \in Running : tasks[t].pc \in ModalSites

\* The connections the client of task t has opened and that are still open:
\* the one self.ws holds and the ones it no longer refers to.
OpenConnections(t) ==
    (IF tasks[t].held = "open" THEN 1 ELSE 0) + tasks[t].leaked

\* _set_busy, lines 136-139.
set_busy(busy) ==
    /\ btn_fetch' = IF busy THEN "disabled" ELSE "normal"
    /\ btn_generate' = IF busy THEN "disabled" ELSE "normal"

\* update_generate_button_state, lines 260-262, on the checkboxes mv.
update_generate_button_state(mv) ==
    btn_generate' = IF \E m \in DOMAIN mv : mv[m] THEN "normal"
                    ELSE "disabled"

\* VTSAPI._conn, lines 23-26: self.ws is replaced by a new connection; the
\* connection it held is not closed.
conn(task) ==
    [task EXCEPT !.held = "open",
                 !.leaked = @ + (IF task.held = "open" THEN 1 ELSE 0)]

\* VTSAPI.close, lines 205-207, on the client of a task.
api_close(task) == [task EXCEPT !.held = close(@)]

\* on_fetch_models, lines 162-179: a click on the enabled fetch button.
OnFetchModels ==
    /\ btn_fetch = "normal" /\ ~ModalOpen
    /\ \E t \in 1..MaxTasks :
        /\ tasks[t].kind = None
        /\ tasks' = [tasks EXCEPT ![t] =
                        [NoTask EXCEPT !.kind = "fetch", !.pc = "auth"]]
    /\ set_busy(TRUE)
    /\ UNCHANGED model_vars

\* on_generate, lines 214-242: a click on the enabled generate button; with
\* no model selected it only warns.
OnGenerate ==
    /\ btn_generate = "normal" /\ ~ModalOpen
    /\ IF \A m \in DOMAIN model_vars : ~model_vars[m]
       THEN UNCHANGED <<btn_fetch, btn_generate, tasks>>
       ELSE /\ \E t \in 1..MaxTasks :
                /\ tasks[t].kind = None
                /\ tasks' = [tasks EXCEPT ![t] =
                        [NoTask EXCEPT !.kind = "generate", !.pc = "collect"]]
            /\ set_busy(TRUE)
    /\ UNCHANGED model_vars

\* select_all and select_none, lines 152-160.
SelectAll ==
    /\ ~ModalOpen
    /\ model_vars' = [m \in DOMAIN model_vars |-> TRUE]
    /\ update_generate_button_state(model_vars')
    /\ UNCHANGED <<btn_fetch, tasks>>

SelectNone ==
    /\ ~ModalOpen
    /\ model_vars' = [m \in DOMAIN model_vars |-> FALSE]
    /\ update_generate_button_state(model_vars')
    /\ UNCHANGED <<btn_fetch, tasks>>

\* A click on the checkbox of a model (line 254).
Toggle ==
    /\ ~ModalOpen
    /\ \E m \in DOMAIN model_vars :
        model_vars' = [model_vars EXCEPT ![m] = ~@]
    /\ update_generate_button_state(model_vars')
    /\ UNCHANGED <<btn_fetch, tasks>>

\* The remote closes the connection a client holds.
PeerClose ==
    /\ \E t \in Running :
        /\ tasks[t].held = "open"
        /\ tasks' = [tasks EXCEPT ![t].held = "closed"]
    /\ UNCHANGED <<btn_fetch, btn_generate, model_vars>>

\* _fetch_models, lines 184-194: api.auth() (which starts with _conn), and
\* the except clause around it.  up: the connect succeeded; ok: the
\* exchange on the new connection succeeded.
FetchAuth ==
    /\ \E t \in Running, up \in BOOLEAN, ok \in BOOLEAN :
        /\ tasks[t].kind = "fetch" /\ tasks[t].pc = "auth"
        /\ LET c == IF up THEN conn(tasks[t]) ELSE tasks[t] IN
           tasks' = [tasks EXCEPT ![t] =
                IF up /\ ok THEN [c EXCEPT !.pc = "probe"]
                ELSE IF c.attempt = 0 THEN [c EXCEPT !.pc = "auth_modal"]
                ELSE [api_close(c) EXCEPT !.pc = "cb_busy"]]
    /\ UNCHANGED <<btn_fetch, btn_generate, model_vars>>

\* The user confirms the window of _wait_modal: the task goes on.
Modal ==
    /\ \E t \in Running :
        /\ tasks[t].pc \in ModalSites
        /\ tasks' = [tasks EXCEPT ![t] =
                CASE tasks[t].pc = "auth_modal" ->
                        [tasks[t] EXCEPT !.pc = "auth", !.attempt = 1]
                  [] tasks[t].pc = "probe_modal" ->
                        [tasks[t] EXCEPT !.pc = "models", !.attempt = 0]
                  [] OTHER ->
                        [tasks[t] EXCEPT !.pc = "models", !.attempt = 1]]
    /\ UNCHANGED <<btn_fetch, btn_generate, model_vars>>

\* A request of the client of task t goes out: _req reconnects when the
\* peer closed the connection (vts_client.py lines 55-59).
Reconnected(task) == IF task.held = "closed" THEN conn(task) ELSE task

\* Lines 197-198: check_vts_state.
FetchProbe ==
    /\ \E t \in Running, ok \in BOOLEAN :
        /\ tasks[t].kind = "fetch" /\ tasks[t].pc = "probe"
        /\ tasks' = [tasks EXCEPT ![t] =
                [Reconnected(tasks[t]) EXCEPT
                    !.pc = IF ok THEN "models" ELSE "probe_modal",
                    !.attempt = 0]]
    /\ UNCHANGED <<btn_fetch, btn_generate, model_vars>>

\* Lines 201-212: get_available_models, close and return, or the except
\* clause.
FetchModels ==
    /\ \E t \in Running, ok \in BOOLEAN, n \in 0..MaxFound :
        /\ tasks[t].kind = "fetch" /\ tasks[t].pc = "models"
        /\ LET c == Reconnected(tasks[t]) IN
           tasks' = [tasks EXCEPT ![t] =
                IF ok
                THEN [api_close(c) EXCEPT !.pc = "cb_checks", !.found = n]
                ELSE IF c.attempt = 0 THEN [c EXCEPT !.pc = "models_modal"]
                ELSE [api_close(c) EXCEPT !.pc = "cb_busy"]]
    /\ UNCHANGED <<btn_fetch, btn_generate, model_vars>>

\* Line 169: _update_model_checks (lines 244-258) runs in the main loop.
CbChecks ==
    /\ \E t \in Running :
        /\ tasks[t].pc = "cb_checks"
        /\ model_vars' = [m \in 1..tasks[t].found |-> TRUE]
        /\ tasks' = [tasks EXCEPT ![t].pc = "cb_button"]
    /\ update_generate_button_state(model_vars')
    /\ UNCHANGED btn_fetch

\* Line 171.
CbButton ==
    /\ \E t \in Running :
        /\ tasks[t].pc = "cb_button"
        /\ btn_generate' = IF tasks[t].found > 0 THEN "normal"
                           ELSE "disabled"
        /\ tasks' = [tasks EXCEPT ![t].pc = "cb_busy"]
    /\ UNCHANGED <<btn_fetch, model_vars>>

\* Lines 176 and 239: the finally clause of a task, _set_busy(False) in the
\* main loop; the thread is over.
CbBusy ==
    /\ \E t \in Running :
        /\ tasks[t].pc = "cb_busy"
        /\ tasks' = [tasks EXCEPT ![t] = NoTask]
    /\ set_busy(FALSE)
    /\ UNCHANGED model_vars

\* Lines 221-226: _collect_selected_models returns data, returns nothing or
\* raises.
GenCollect ==
    /\ \E t \in Running, data \in BOOLEAN :
        /\ tasks[t].kind = "generate" /\ tasks[t].pc = "collect"
        /\ tasks' = [tasks EXCEPT ![t].pc =
                        IF data THEN "generate" ELSE "cb_busy"]
    /\ UNCHANGED <<btn_fetch, btn_generate, model_vars>>

\* Lines 227-237: generate_streamdeck_profiles and the message boxes.
GenGenerate ==
    /\ \E t \in Running :
        /\ tasks[t].kind = "generate" /\ tasks[t].pc = "generate"
        /\ tasks' = [tasks EXCEPT ![t].pc = "cb_busy"]
    /\ UNCHANGED <<btn_fetch, btn_generate, model_vars>>

GuiInit ==
    /\ RunInit /\ ~interactive /\ ~selected_ids.on
    /\ UuidIdle /\ GenIdle /\ GuiIdle

GuiNext ==
    \/ OnFetchModels /\ UNCHANGED <<runVars, uuidVars, genVars>>
    \/ OnGenerate /\ UNCHANGED <<runVars, uuidVars, genVars>>
    \/ SelectAll /\ UNCHANGED <<runVars, uuidVars, genVars>>
    \/ SelectNone /\ UNCHANGED <<runVars, uuidVars, genVars>>
    \/ Toggle /\ UNCHANGED <<runVars, uuidVars, genVars>>
    \/ PeerClose /\ UNCHANGED <<runVars, uuidVars, genVars>>
    \/ FetchAuth /\ UNCHANGED <<runVars, uuidVars, genVars>>
    \/ Modal /\ UNCHANGED <<runVars, uuidVars, genVars>>
    \/ FetchProbe /\ UNCHANGED <<runVars, uuidVars, genVars>>
    \/ FetchModels /\ UNCHANGED <<runVars, uuidVars, genVars>>
    \/ CbChecks /\ UNCHANGED <<runVars, uuidVars, genVars>>
    \/ CbButton /\ UNCHANGED <<runVars, uuidVars, genVars>>
    \/ CbBusy /\ UNCHANGED <<runVars, uuidVars, genVars>>
    \/ GenCollect /\ UNCHANGED <<runVars, uuidVars, genVars>>
    \/ GenGenerate /\ UNCHANGED <<runVars, uuidVars, genVars>>

GuiSpec == GuiInit /\ [][GuiNext]_vars

\* ================================================================ claims
IsCooldown(o) == o \in {ErrCannotChange, ErrCooldown}
AllCooldown(os) == \A i \in DOMAIN os : IsCooldown(os[i])
Successes == {i \in DOMAIN results : ~results[i].skipped}

\* C1: a run that returns its results returns exactly one entry per model of
\* the (filtered) list, in list order, whatever happened to each model.
C1_OneEntryPerModel ==
    returned = "results" =>
        /\ Len(results) = Len(models)
        /\ \A i \in DOMAIN results : results[i].modelID = models[i]

\* C2: the hotkey list of every entry that is not a placeholder is the list
\* the remote holds for the model the entry names.
C2_HotkeysOfOwnModel ==
    \A i \in DOMAIN results :
        ~results[i].skipped =>
            results[i].hotkeys = HotkeysOf(results[i].modelID)

\* C3: every frame _req returns (or turns into a RuntimeError) answers the
\* request that this very call sent.
C3_ReplyAnswersOwnRequest == ~ret.resp.stale

\* C4: at most one request of a connection is unanswered at any moment.
C4_OneRequestInFlight == Len(pending) <= 1

\* C5: the current-model and hotkeys reads of a model are made after its
\* load_model call returned, the last load request sent being the one for
\* this model; a load request is only ever sent from inside a running
\* load_model call, never between its return and the hotkeys read.
C5_ReadsFollowOwnLoad ==
    /\ [](pc \in {"info", "hotkeys"} =>
            /\ lmState = "returned"
            /\ loadsSent >= 1
            /\ lastLoadReq = model_id)
    /\ [][loadsSent' > loadsSent => lmState = "running" /\ pc = "lm_load"]_vars

C5_Witness ==
    /\ pc = "hotkeys" /\ phase = "recv" /\ idx = 2
    /\ lmState = "returned" /\ lastLoadReq = models[2]

\* C6: when the probe that opens load_model came back false, the driver
\* leaves the model with a placeholder appended for it, and does not abort.
C6_FalseProbeGivesPlaceholder ==
    [][(exc.msg = MsgProbeFailed /\ pc' # pc /\ pc' \notin {"wait_blocked",
                                                           "recheck"})
        => /\ pc' = "loop"
           /\ results' = Append(results, Placeholder(model_id))]_vars

\* C7: when the load request timed out in every attempt, the driver leaves
\* the model with a placeholder appended after the entries recorded so far,
\* which are kept as they are.
C7_LoadTimeoutGivesPlaceholder ==
    [][(loadOutcomes = <<"timeout", "timeout", "timeout">> /\ idx' # idx)
        => results' = Append(results, Placeholder(model_id))]_vars

\* C8: the counts reported at the end of a run add up to the number of
\* models, the success count is the number of entries that are not
\* placeholders and it is not negative.
C8_CountsConsistent ==
    returned = "results" =>
        /\ successful_models >= 0
        /\ successful_models + failed_models = Len(models)
        /\ successful_models = Cardinality(Successes)

\* C9: cooldown errors on the first two load requests and success on the
\* third: load_model does not end before the third request, and it has then
\* sent exactly 3 load requests and returns normally unless the
\* verification read that follows fails.
C9_CooldownTwiceThenSuccess ==
    /\ (loadOutcomes # <<>> /\ Len(loadOutcomes) < 3
            /\ AllCooldown(loadOutcomes))
        => lmState = "running"
    /\ (Len(loadOutcomes) = 3 /\ AllCooldown(SubSeq(loadOutcomes, 1, 2))
            /\ loadOutcomes[3] = "ok")
        => /\ loadsSent = 3
           /\ lmState = "raised" => exc.msg = MsgDialogAfterLoad
           /\ lmState = "running" => pc = "lm_verify"

C9_Witness ==
    /\ lmState = "returned" /\ pc = "info"
    /\ Len(loadOutcomes) = 3 /\ AllCooldown(SubSeq(loadOutcomes, 1, 2))
    /\ loadOutcomes[3] = "ok"
    /\ loadsSent = 3

\* C10: cooldown errors on every load request: load_model raises the
\* cooldown error after exactly 3 load requests, and the driver counts the
\* model as failed and goes on to the next one, pausing at most for the
\* operator; the run is not aborted.
ThreeCooldowns == Len(loadOutcomes) = 3 /\ AllCooldown(loadOutcomes)

C10_CooldownExhaustedIsSkipped ==
    /\ [](ThreeCooldowns =>
            /\ lmState = "raised" /\ loadsSent = 3
            /\ exc.type = "RuntimeError" /\ IsCooldown(exc.msg)
            /\ pc \in {"except", "wait_busy", "wait_unknown"})
    /\ [][(ThreeCooldowns /\ pc' # pc) =>
            \/ pc' \in {"wait_busy", "wait_unknown"} /\ idx' = idx
            \/ /\ pc' = "loop" /\ idx' = idx + 1
               /\ failed_models' = failed_models + 1]_vars

C10_Witness ==
    /\ ThreeCooldowns /\ pc = "except" /\ loadsSent = 3
    /\ idx < Len(models)

\* The statements at which the driver sits inside wait_for_user_input.
WaitSites == {"wait_periodic", "wait_timeout", "wait_blocked", "wait_busy",
              "wait_unknown"}

\* C11: with interactive = False the driver never calls wait_for_user_input,
\* on any path.
C11_NeverWaitsWhenNotInteractive == ~interactive => pc \notin WaitSites

\* C12: load_model is invoked exactly once for every model of the (filtered)
\* list, in list order: the index advances by one, only after the load_model
\* call of the current model has ended; no failure inside the loop reaches
\* the outer except clause, and the loop ends only after the last model.
C12_EveryModelLoadedOnce ==
    /\ [](idx >= 1 => pc # "fatal" /\ (pc = "done" => returned = "results"))
    /\ [](idx >= 1 /\ pc \in {"close", "done"} => idx = Len(models) + 1)
    /\ [][idx' # idx =>
            /\ idx' = idx + 1
            /\ idx >= 1 => (lmState \in {"returned", "raised"}
                            /\ idx <= Len(models))]_vars
    /\ [][(lmState' = "running" /\ lmState # "running") =>
            /\ lmState = "idle" /\ idx' = idx /\ idx \in 1..Len(models)
            /\ pc' = "lm_probe"]_vars

C12_Witness ==
    /\ pc = "close" /\ Len(models) >= 2 /\ idx = Len(models) + 1
    /\ failed_models >= 1 /\ Successes # {}

\* C13: a connection failure that _req could not repair (the reconnect
\* failed, or the connection was lost a second time) is fatal wherever it
\* happens: it is handled by the outer except clause and the run ends.
C13_ConnectionLossIsFatal ==
    exc.msg = MsgConnection => pc \in {"fatal", "done"}

\* The steps of the program and of the operator: every step but the remote's.
ClientStep ==
    \/ Start \/ AuthTokDone \/ AuthSend \/ AuthRecv
    \/ ReqSend \/ ReqRecv \/ ReqClosed \/ ReqReconnect \/ ReqTimeout
    \/ InitProbeDone \/ ModelsDone \/ LoopHead \/ PeriodicDone
    \/ LmProbeDone \/ LmLoadDone \/ LmVerifyDone \/ LmTProbeDone
    \/ InfoDone \/ HotkeysDone
    \/ ExceptTimeout \/ ExceptBlocked \/ ExceptBusy \/ ExceptUnknown
    \/ UserAck \/ RecheckDone \/ Finish \/ Abort

\* C14: the run cannot be held up by a silent remote: in every state before
\* the return, the program or the operator has a step to take, or the
\* program is waiting for a reply under a per-call timeout.
C14_EveryWaitIsBounded ==
    pc # "done" =>
        \/ ENABLED ClientStep
        \/ phase = "recv" /\ pc \in ReqSites /\ HasTimeout(pc)

\* C15: when the token request is answered with the error "authentication
\* is currently ongoing", auth raises at once: no authentication request is
\* sent, the token stays unset and authed stays false.
C15_OngoingAuthRaisesAtOnce ==
    /\ [][(/\ pc = "auth_tok" /\ phase = "ret"
           /\ ret.kind = "RuntimeError" /\ ret.msg = ErrOngoing) =>
            /\ pc' = "fatal"
            /\ exc' = [type |-> "RuntimeError", msg |-> MsgAuthPending]
            /\ pending' = pending /\ token' = 0 /\ ~authed']_vars
    /\ [](exc.msg = MsgAuthPending =>
            /\ token = 0 /\ ~authed /\ pc \in {"fatal", "done"}
            /\ \A i \in DOMAIN pending : pending[i].msg # AuthRequest)

C15_Witness ==
    /\ exc.msg = MsgAuthPending /\ pc = "done" /\ returned = "None"
    /\ token = 0 /\ ~authed

\* C16: authed is set only by auth, after the token was stored and a
\* non-empty reply to the authentication request was read; on an empty reply
\* auth raises and the flag stays false; whenever authed is set, the token
\* is set.
C16_AuthedOnlyAfterTokenAndReply ==
    /\ [](authed => token # 0)
    /\ [](exc.msg = MsgAuthFailed => ~authed)
    /\ [][(authed' /\ ~authed) =>
            /\ pc = "auth_recv" /\ token # 0 /\ token' = token
            /\ inbox # <<>> /\ ~Head(inbox).stale
            /\ Head(inbox).type \in {"AuthenticationResponse", "APIError"}]_vars
    /\ [][(/\ pc = "auth_recv" /\ inbox # <<>>
           /\ Head(inbox).type = "Empty" /\ pc' # pc) =>
            /\ ~authed' /\ pc' = "fatal"
            /\ exc' = [type |-> "RuntimeError", msg |-> MsgAuthFailed]]_vars

C16_Witness == authed /\ token = 1 /\ pc = "init_probe" /\ phase = "send"

\* C17: one _req call reconnects at most once and sends its request at most
\* twice: a closed connection is answered by one reconnect and one re-send,
\* and a connection failure after that leaves _req as an exception.
C17_AtMostOneReconnectPerCall ==
    /\ [](sends <= 2 /\ (sends = 2 => retried))
    /\ [][(ws = "closed" /\ ws' = "open") => phase = "reconnect"]_vars
    /\ [][(phase' = "reconnect" /\ phase # "reconnect") =>
            ~retried /\ retried' /\ pc' = pc]_vars
    /\ [][(phase = "reconnect" /\ phase' # phase) =>
            \/ /\ phase' = "recv" /\ ws' = "open" /\ sends' = sends + 1
               /\ Len(pending') = 1 /\ pending'[1].msg = MsgOf(pc)
            \/ /\ phase' = "ret" /\ sends' = sends
               /\ ret' = Raised("Exception", MsgConnection)]_vars
    /\ [][(/\ phase = "recv" /\ retried /\ ws = "closed"
           /\ inbox = <<>> /\ phase' # phase) =>
            /\ phase' = "ret" /\ sends' = sends
            /\ ret' = Raised("Exception", MsgConnection)]_vars

C17_Witness ==
    /\ sends = 2 /\ retried /\ phase = "ret" /\ ret.kind = "ok"
    /\ pc \in ReqSites

\* C18: every request sent while authed is set carries the stored token;
\* a request sent before carries none, except the authentication request,
\* which carries the token it was given.
C18_TokenInRequestsAfterAuth ==
    [][(sends' = sends + 1 \/ (pc = "auth_send" /\ pc' = "auth_recv")) =>
        LET r == pending'[Len(pending')] IN
            /\ authed => (r.tok = token /\ token # 0)
            /\ (~authed /\ r.msg # AuthRequest) => r.tok = 0
            /\ r.msg = AuthRequest => (r.tok = token /\ token # 0)]_vars

C18_Witness ==
    /\ authed /\ pending # <<>>
    /\ pending[Len(pending)].msg = LoadRequest
    /\ pending[Len(pending)].tok = 1

\* The call sites of check_vts_state.
ProbeSites == {"init_probe", "periodic", "lm_probe", "lm_tprobe", "recheck"}

\* C19: check_vts_state returns True exactly when its own state request got
\* a non-error reply within the timeout.
C19_ProbeTrueIffOwnReply ==
    (pc \in ProbeSites /\ phase = "ret" /\ ret.kind = "ok") =>
        (ret.resp.type = "APIStateResponse" /\ ~ret.resp.stale)

\* C20: a timeout of the info read or of the hotkeys read, after load_model
\* returned, makes the driver append the placeholder of the model (same
\* modelID, default icon, no hotkeys), count the model as failed and go on
\* to the next model, after the operator's pause in interactive mode.
C20_ReadTimeoutGivesPlaceholder ==
    /\ [](exc.type = "Timeout" =>
            lmState = "returned" /\ pc \in {"except", "wait_timeout"})
    /\ [][(exc.type = "Timeout" /\ pc' # pc) =>
            \/ /\ pc = "except" /\ interactive /\ pc' = "wait_timeout"
               /\ results' = results /\ idx' = idx
            \/ /\ pc' = "loop" /\ idx' = idx + 1
               /\ failed_models' = failed_models + 1
               /\ results' = Append(results,
                      [modelID |-> models[idx], skipped |-> TRUE,
                       icon |-> DEFAULT_ICON, hotkeys |-> <<>>])]_vars

C20_Witness ==
    /\ pc = "loop" /\ idx = 2 /\ Len(models) >= 2
    /\ results = <<Placeholder(models[1])>> /\ failed_models = 1
    /\ lastLoadReq = models[1]

\* The errors load_model raises for a blocked remote (lines 110, 130, 141).
BlockedErrors == {MsgProbeFailed, MsgBlockedTimeout, MsgDialogAfterLoad}

\* C21: a remote error with an unrecognized message raised by load_model
\* gets the decision a blocked-remote error gets: in either case the driver
\* pauses for the operator exactly when the run is interactive.
C21_UnknownHandledLikeBlocked ==
    [][(/\ pc = "except" /\ lmState = "raised"
        /\ exc.type = "RuntimeError"
        /\ exc.msg \in BlockedErrors \cup {ErrOther}
        /\ pc' # pc) =>
            ((pc' \in WaitSites) <=> interactive)]_vars

\* C22: the driver classifies what load_model raises as load_model does: a
\* cooldown-class error takes the driver's busy branch, a blocked-remote
\* error its blocked branch (the branch shows in the pause of an
\* interactive run).
C22_LoadFailureClassesAgree ==
    [][(/\ pc = "except" /\ lmState = "raised" /\ interactive
        /\ exc.type = "RuntimeError" /\ pc' # pc) =>
            /\ CooldownClass(exc.msg) => pc' = "wait_busy"
            /\ exc.msg \in BlockedErrors => pc' = "wait_blocked"]_vars

ProbePositions == {5, 10, 15}

\* C25: the driver probes before the models at positions 5, 10, 15 of the
\* list and before no other; after a false probe it pauses only in
\* interactive mode, and in every case it then processes that model.
C25_PeriodicProbe ==
    /\ [](pc \in {"periodic", "wait_periodic"} =>
            idx - 1 \in ProbePositions /\ lmState = "idle")
    /\ [][(pc = "loop" /\ idx <= Len(models) /\ pc' # pc) =>
            IF idx - 1 \in ProbePositions
            THEN pc' = "periodic" /\ phase' = "send" /\ idx' = idx
            ELSE pc' = "lm_probe" /\ lmState' = "running"]_vars
    /\ [][(pc = "periodic" /\ phase = "ret" /\ pc' # pc) =>
            /\ idx' = idx
            /\ IF ret.kind # "ok" /\ interactive
               THEN pc' = "wait_periodic"
               ELSE pc' = "lm_probe" /\ lmState' = "running"]_vars
    /\ [][(pc = "wait_periodic" /\ pc' # pc) =>
            pc' = "lm_probe" /\ lmState' = "running" /\ idx' = idx]_vars

C25_Witness ==
    /\ pc = "wait_periodic" /\ interactive /\ idx = 6
    /\ Len(results) + failed_models >= 5

\* C26: a false probe at the start of load_model makes it raise the blocked
\* error at once; that call sends no load-model request.
C26_FalseProbeSendsNoLoad ==
    /\ [][(pc = "lm_probe" /\ phase = "ret" /\ ret.kind # "ok") =>
            /\ pc' = "except" /\ lmState' = "raised"
            /\ exc' = [type |-> "RuntimeError", msg |-> MsgProbeFailed]
            /\ loadsSent' = 0 /\ loadOutcomes' = <<>>]_vars
    /\ [](exc.msg = MsgProbeFailed =>
            /\ lmState = "raised" /\ loadsSent = 0 /\ loadOutcomes = <<>>
            /\ \A i \in DOMAIN pending : pending[i].msg = LoadRequest =>
                                           pending[i].stale)

C26_Witness ==
    /\ exc.msg = MsgProbeFailed /\ pc = "except" /\ loadsSent = 0
    /\ idx = 2 /\ lastLoadReq = models[1]

\* C27: a timeout of the load-model request makes load_model fail only on
\* the third attempt, and then with the timeout error: after a timeout on an
\* earlier attempt the request is issued again.
C27_LoadTimeoutRetries ==
    (/\ lmState = "raised" /\ loadOutcomes # <<>>
     /\ loadOutcomes[Len(loadOutcomes)] = "timeout") =>
        Len(loadOutcomes) = max_retries /\ exc.msg = MsgLoadTimeout

\* C28: an error of the load-model request that is neither a timeout nor
\* cooldown-class makes load_model raise at once, a connection failure and
\* a malformed reply included: no further load-model request is sent.
C28_OtherLoadErrorIsFatal ==
    [][(/\ pc = "lm_load" /\ phase = "ret"
        /\ ret.kind \notin {"ok", "Timeout"}
        /\ ~CooldownClass(ret.msg)) =>
            /\ pc' = "except" /\ lmState' = "raised"
            /\ loadsSent' = loadsSent]_vars

\* The call sites inside load_model, and a measure of how far a load_model
\* call has got: the attempt, then the call site, then the position in _req.
LmSites == {"lm_probe", "lm_load", "lm_verify", "lm_tprobe"}
SiteRank == CASE pc = "lm_probe" -> 0 [] pc = "lm_load" -> 1 [] OTHER -> 2
PhaseRank ==
    CASE phase = "send" -> 0
      [] phase = "recv" /\ ~retried -> 1
      [] phase = "reconnect" -> 2
      [] phase = "recv" -> 3
      [] OTHER -> 4
LmProgress == attempt * 100 + SiteRank * 10 + PhaseRank

\* C29: a load_model call makes at most 3 attempts and ends by returning
\* after a verified attempt or by raising: while it runs it is at one of its
\* call sites with an attempt number below 3, every step it takes moves it
\* forward, and it is never held at a wait that has no timeout.
C29_LoadModelTerminates ==
    /\ [](lmState = "running" =>
            /\ pc \in LmSites /\ attempt \in 0..(max_retries - 1)
            /\ Len(loadOutcomes) <= max_retries
            /\ \/ ENABLED ClientStep
               \/ phase = "recv" /\ HasTimeout(pc))
    /\ [][(/\ lmState = "running" /\ lmState' = "running"
           /\ <<pc, phase, retried, attempt>>' # <<pc, phase, retried, attempt>>)
            => LmProgress' > LmProgress]_vars
    /\ [][(lmState = "running" /\ lmState' # "running") =>
            \/ /\ lmState' = "returned"
               /\ pc = "lm_verify" /\ ret.kind = "ok"
            \/ /\ lmState' = "raised" /\ pc' = "except"
               /\ exc'.type \in {"RuntimeError", "Exception"}]_vars

C29_Witness ==
    /\ lmState = "raised" /\ pc = "except" /\ exc.msg = MsgLoadTimeout
    /\ loadOutcomes = <<"timeout", "timeout", "timeout">>

\* C30: load_model returns only when the load-model request of its last
\* attempt was answered, without error and in time, and the verification
\* read that followed succeeded.
C30_ReturnsOnlyAfterLoadReply ==
    lmState = "returned" =>
        /\ loadOutcomes # <<>>
        /\ loadOutcomes[Len(loadOutcomes)] \in {"ok", "resent"}

\* C23: a lookup of the name the lookup before it looked up returns what
\* that one returned and leaves the file as it is: no id is generated for
\* the name a second time.
C23_LookupIdempotent ==
    [][(/\ ulast.op = "get_model_uuid" /\ ulast'.op = "get_model_uuid"
        /\ ulast'.name = ulast.name /\ ulast'.rep) =>
            /\ ulast'.out = ulast.out
            /\ ufile' = ufile]_vars

C23_Witness ==
    /\ ulast.op = "get_model_uuid" /\ ulast.rep /\ ulast.out.kind = "ok"
    /\ ufile.fmt = "nested" /\ ulast.name \in DOMAIN ufile.models
    /\ ufile.models[ulast.name] = ulast.out.id /\ ulast.out.id = uuid4(2)

\* C31: a run returns straight from its start (no client was created) or
\* through the close of its client, on the normal path and on the fatal
\* path; once it has returned the connection is not open and nothing more
\* is sent.
C31_ClosedBeforeReturn ==
    /\ [][(pc # "done" /\ pc' = "done") =>
            \/ pc = "start" /\ ws = None /\ ws' = None
            \/ pc \in {"close", "fatal"} /\ ws' = close(ws)]_vars
    /\ [](pc = "done" => ws # "open")
    /\ [][pc = "done" =>
            /\ pc' = "done" /\ ws' = ws /\ sends' = sends
            /\ Len(pending') <= Len(pending)]_vars

C31_Witness ==
    /\ pc = "done" /\ ws = "closed" /\ returned = "None"
    /\ exc.msg = MsgAuthFailed

\* C32: a request other than the token request and the authentication
\* request is sent only on the connection on which the authentication
\* exchange of this client has completed: the client is authenticated and
\* the request goes out on the connection it already holds open, never as
\* the first frame of a connection _conn has just opened.
C32_SentOnAuthenticatedConnection ==
    [][(sends' = sends + 1 /\ MsgOf(pc) \notin {TokenRequest, AuthRequest})
         => (authed /\ ws = "open")]_vars

\* The buttons of a profile, page after page, each page in the order of its
\* assignments.
RECURSIVE ButtonsFrom(_, _)
ButtonsFrom(pages, p) ==
    IF p > Len(pages) THEN <<>> ELSE pages[p] \o ButtonsFrom(pages, p + 1)
ButtonsOf(profile) == ButtonsFrom(profile.pages, 1)
KeyedButtons(profile, key) ==
    SelectSeq(ButtonsOf(profile), LAMBDA a : a.btn.UUID = key)

\* The model profiles of the output directory (the ones with a switch-model
\* button), the model each one is for, and the Home profiles.
ModelProfiles ==
    {id \in DOMAIN outdir : KeyedButtons(outdir[id], KeySwitchModel) # <<>>}
ModelOf(profile) == KeyedButtons(profile, KeySwitchModel)[1].btn.model
HomeProfiles == DOMAIN outdir \ ModelProfiles

\* C34: the hotkey buttons of every generated model profile, page after
\* page, are the hotkeys of its model, each one once and in hotkey order.
C34_EveryHotkeyBound ==
    \A id \in ModelProfiles :
        LET hk == KeyedButtons(outdir[id], KeyHotkey) IN
        [i \in DOMAIN hk |-> hk[i].btn.hotkey]
            = models_data[ModelOf(outdir[id])].hotkeys

\* C35: once the Home profile is generated, its model buttons, page after
\* page, are the result entries, each one once and in result order.
C35_OneHomeButtonPerEntry ==
    gpc \in {"copy", "True"} =>
        /\ Cardinality(HomeProfiles) = 1
        /\ \A id \in HomeProfiles :
            LET b == KeyedButtons(outdir[id], KeyProfile) IN
            [i \in DOMAIN b |-> b[i].btn.Name]
                = [i \in DOMAIN models_data |-> models_data[i].modelName]

C35_Witness ==
    /\ gpc = "True" /\ Len(models_data) = 28
    /\ \E id \in HomeProfiles :
        /\ Len(official[id].pages) = 3
        /\ Len(KeyedButtons(official[id], KeyProfile)) = 28

\* C36: on every generated page no slot is assigned twice, and the page has
\* a Previous button exactly when it is not the first page and a Next
\* button exactly when it is not the last one.
C36_NoSlotAssignedTwice ==
    \A id \in DOMAIN outdir :
        \A p \in DOMAIN outdir[id].pages :
            LET page == outdir[id].pages[p] IN
            /\ \A i, j \in DOMAIN page :
                page[i].slot = page[j].slot => i = j
            /\ (\E i \in DOMAIN page : page[i].btn.UUID = KeyPrevious)
                    <=> p > 1
            /\ (\E i \in DOMAIN page : page[i].btn.UUID = KeyNext)
                    <=> p < Len(outdir[id].pages)

C36_Witness ==
    /\ gpc = "True"
    /\ \E id \in ModelProfiles :
        /\ Len(outdir[id].pages) = 3
        /\ Len(outdir[id].pages[2]) = 15
        /\ \E i \in DOMAIN outdir[id].pages[1] :
            /\ outdir[id].pages[1][i].slot = PREV_SLOT
            /\ outdir[id].pages[1][i].btn.UUID = KeySwitchModel
        /\ \E i \in DOMAIN outdir[id].pages[3] :
            /\ outdir[id].pages[3][i].slot = PREV_SLOT
            /\ outdir[id].pages[3][i].btn.UUID = KeyPrevious

\* C37: once the model loop is over, every result entry has a profile
\* folder of its own in the output directory.
C37_OneProfilePerModel ==
    gpc \in {"home", "copy", "True"} =>
        \A i \in DOMAIN models_data :
            \E id \in ModelProfiles :
                ModelOf(outdir[id]) = models_data[i].modelID

\* C38: get_home_uuid gives one id to the whole run, and the Back-to-Home
\* button of every generated model profile names the generated Home
\* profile.
C38_OneHomeId ==
    /\ Cardinality(home_ids) <= 1
    /\ gpc \in {"copy", "True"} =>
        \A id \in ModelProfiles, h \in HomeProfiles :
            \A i \in DOMAIN outdir[id].pages[1] :
                outdir[id].pages[1][i].btn.Name = "Back to Home" =>
                    outdir[id].pages[1][i].btn.ProfileUUID
                        = outdir[h].ProfileUUID

\* C33: the client of a task has at most one connection open at any time.
C33_AtMostOneOpenConnection ==
    \A t \in 1..MaxTasks : OpenConnections(t) <= 1

\* The threads that are at work: started and not yet at the callbacks that
\* end them.
Working ==
    {t \in Running : tasks[t].pc \notin {"cb_checks", "cb_button", "cb_busy"}}

\* C39: at most one thread is at work at a time, and while one is, the
\* fetch button and the generate button are disabled.
C39_OneTaskAtATime ==
    /\ Cardinality(Working) <= 1
    /\ Working # {} => btn_fetch = "disabled" /\ btn_generate = "disabled"

====
